---- MODULE Spec2Model ----
(***************************************************************************)
(* A model of console-mermaid: the graph pipeline (parser, mk_graph,       *)
(* placement, grid sizing, A* routing, rasterisation), the junction-merge  *)
(* table and the sequence renderer, as state machines over small inputs.   *)
(* Source of record: src/src/graph/mod.rs, src/src/sequence.rs,            *)
(* src/src/diagram.rs.                                                     *)
(***************************************************************************)
EXTENDS Integers, Sequences, FiniteSets, TLC

(***************************************************************************)
(* Bounds of the model.                                                    *)
(***************************************************************************)
\* Most body lines of a graph input.
MaxLines == 2

\* Lines of an input with subgraphs, and subgraphs opened in it.
MaxSubLines == 5

MaxSubgraphs == 2

\* Longest chain of the depth specification beyond the slot table's reach.
ChainSlack == 1

\* Most lines of a sequence diagram.
MaxSeqLines == 3

\* Most lines of a graph of the placement runs.
MaxPlaceLines == 3

\* Most edge lines of a graph of the routing runs.
MaxRouteLines == 3

\* Most steps of the paths that are merged on their own.
MaxPathSteps == 5

\* Most edge lines of a graph of the runs with edge labels.
MaxLabelLines == 2

\* Most lines of a text of the runs of the parser alone.
MaxNestLines == 5

\* Most lines of a graph of the runs that space the root subgraphs.
MaxSpaceLines == 5

\* Most lines of a sequence diagram of the runs with configured spacings.
MaxLayoutLines == 4

(***************************************************************************)
(* Program constants.                                                      *)
(***************************************************************************)
\* vec![0; 100]: the per-level slot table of create_mapping.
LevelSlots == 100
\* The pitch of the placement grid: a 3x3 block plus one padding cell.
LevelStep == 4
\* Width and height of a node's block in grid cells.
BlockSize == 3
\* subgraph_padding and subgraph_label_space of the bounding boxes.
SubgraphPadding == 2
SubgraphLabelSpace == 2
\* min_spacing of ensure_subgraph_spacing.
MinSpacing == 1

VARIABLES
    pc,            \* position in render_diagram
    mode,          \* which entry point this behaviour exercises
    config,        \* diagram::Config
    lines,         \* body lines handed to the graph parser so far
    data,          \* GraphProperties.data (an ordered map)
    tsubgraphs,    \* GraphProperties.subgraphs
    subgraph_stack,\* the parser's stack of open subgraphs
    nodes,         \* Graph.nodes
    edges,         \* Graph.edges
    grid,          \* Graph.grid
    column_width,  \* Graph.column_width
    row_height,    \* Graph.row_height
    subgraphs,     \* Graph.subgraphs
    offset,        \* Graph.offset_x, Graph.offset_y
    drawing,       \* Graph.drawing
    hpl,           \* highest_position_per_level of create_mapping
    idx,           \* loop index of the running phase
    output,        \* the rendered rows, or the error
    jin,           \* junction glyphs handed to merge_junctions
    jout,          \* results of merge_junctions
    seqd,          \* the parsed SequenceDiagram
    aux            \* history: values recorded for the properties

vars == << pc, mode, config, lines, data, tsubgraphs, subgraph_stack, nodes,
           edges, grid, column_width, row_height, subgraphs, offset, drawing,
           hpl, idx, output, jin, jout, seqd, aux >>

(***************************************************************************)
(* Small helpers.                                                          *)
(***************************************************************************)
min(x, y) == IF x < y THEN x ELSE y

max(x, y) == IF x > y THEN x ELSE y

Abs(x) == IF x < 0 THEN -x ELSE x

\* i32 division truncates toward zero.
Div(x, y) == IF x >= 0 THEN x \div y ELSE -((-x) \div y)

ceil_div(x, y) == IF x % y = 0 THEN Div(x, y) ELSE Div(x, y) + 1

Range(s) == { s[i] : i \in DOMAIN s }

Contains(s, e) == \E i \in DOMAIN s : s[i] = e

\* HashMap::insert / entry on a map kept as a function with a finite domain.
MapPut(m, k, v) == [ q \in (DOMAIN m) \cup {k} |-> IF q = k THEN v ELSE m[q] ]

MapGetOr(m, k, d) == IF k \in DOMAIN m THEN m[k] ELSE d

EmptyMap == [ q \in {} |-> 0 ]

Coord(x, y) == [x |-> x, y |-> y]

\* e, with v evaluated first: the accumulator of a loop is a value before the
\* next iteration starts, as in the program.
Strict(v, e) == IF v = v THEN e ELSE e

(***************************************************************************)
(* Graph parser: mermaid_to_graph_properties, on lines already split,      *)
(* stripped of comments and past the header.                               *)
(***************************************************************************)
\* Names and labels are sequences of characters.
NoLabel == << >>

NoName == << >>

EdgeLine(l, r, lbl) == [k |-> "edge", lhs |-> l, rhs |-> r, label |-> lbl, name |-> NoName]

NodeLine(n) == [k |-> "node", lhs |-> << >>, rhs |-> << >>, label |-> NoLabel, name |-> n]

SubgraphLine(n) == [k |-> "subgraph", lhs |-> << >>, rhs |-> << >>, label |-> NoLabel, name |-> n]

EndLine == [k |-> "end", lhs |-> << >>, rhs |-> << >>, label |-> NoLabel, name |-> NoName]

\* Position of key n in the ordered map, 0 when absent.
DataIndex(d, n) == IF \E i \in DOMAIN d : d[i].name = n
                   THEN CHOOSE i \in DOMAIN d : d[i].name = n
                   ELSE 0

DataKeys(d) == [ i \in DOMAIN d |-> d[i].name ]

add_node(n, d) ==
    IF DataIndex(d, n) = 0 THEN Append(d, [name |-> n, edges |-> << >>]) ELSE d

set_data(parent, edge, d) ==
    LET i  == DataIndex(d, parent)
        d1 == IF i # 0
              THEN [d EXCEPT ![i].edges = Append(@, edge)]
              ELSE Append(d, [name |-> parent, edges |-> << edge >>])
    IN  add_node(edge.child, d1)

\* The inner loop of set_arrow_with_label over rhs, for one lhs node.
RECURSIVE ArrowRow(_, _, _, _, _)
ArrowRow(l, rhs, j, lbl, d) ==
    IF j > Len(rhs) THEN d
    ELSE ArrowRow(l, rhs, j + 1, lbl,
                  set_data(l, [parent |-> l, child |-> rhs[j], label |-> lbl], d))

RECURSIVE set_arrow_with_label(_, _, _, _, _)
set_arrow_with_label(lhs, i, rhs, lbl, d) ==
    IF i > Len(lhs) THEN d
    ELSE set_arrow_with_label(lhs, i + 1, rhs, lbl, ArrowRow(lhs[i], rhs, 1, lbl, d))

RECURSIVE AddNodes(_, _, _)
AddNodes(ns, i, d) ==
    IF i > Len(ns) THEN d ELSE AddNodes(ns, i + 1, add_node(ns[i], d))

\* parse_string and the add_node calls that follow it, for one body line.
ParseBody(line, d) ==
    IF line.k = "edge"
    THEN AddNodes(line.rhs, 1, set_arrow_with_label(line.lhs, 1, line.rhs, line.label, d))
    ELSE add_node(line.name, d)

\* The new keys go to the subgraph on top of the stack only.
PushTop(keys, i, stack, sgs) ==
    [ s \in DOMAIN sgs |->
        IF s = stack[Len(stack)]
        THEN [sgs[s] EXCEPT !.nodes = @ \o SelectSeq(SubSeq(keys, i, Len(keys)),
                                                     LAMBDA n : ~Contains(sgs[s].nodes, n))]
        ELSE sgs[s] ]

\* Keys of d1 that d0 lacks, appended to every subgraph on the stack.
RECURSIVE PushNew(_, _, _, _)
PushNew(keys, i, stack, sgs) ==
    IF i > Len(keys) THEN sgs
    ELSE PushNew(keys, i + 1, stack,
                 [ s \in DOMAIN sgs |->
                     IF Contains(stack, s) /\ ~Contains(sgs[s].nodes, keys[i])
                     THEN [sgs[s] EXCEPT !.nodes = Append(@, keys[i])]
                     ELSE sgs[s] ])

NewKeys(d0, d1) == SubSeq(DataKeys(d1), Len(d0) + 1, Len(d1))

\* Option<usize> is 0 for None and the 1-based index for Some.
None == 0

Last(s) == s[Len(s)]

\* One iteration of the body loop of mermaid_to_graph_properties:
\* p is [data, subgraphs, stack].
parse_line(line, p) ==
    IF line.k = "subgraph"
    THEN LET parent == IF Len(p.stack) = 0 THEN None ELSE Last(p.stack)
             i      == Len(p.subgraphs) + 1
             pushed == Append(p.subgraphs,
                              [name |-> line.name, nodes |-> << >>,
                               parent |-> parent, children |-> << >>])
         IN  [data      |-> p.data,
              subgraphs |-> IF parent # None
                            THEN [pushed EXCEPT ![parent].children = Append(@, i)]
                            ELSE pushed,
              stack     |-> Append(p.stack, i)]
    ELSE IF line.k = "end"
    THEN [p EXCEPT !.stack = IF Len(p.stack) = 0 THEN << >>
                             ELSE SubSeq(p.stack, 1, Len(p.stack) - 1)]
    ELSE LET d1 == ParseBody(line, p.data)
         IN  [data      |-> d1,
              subgraphs |-> IF Len(p.stack) = 0 THEN p.subgraphs
                            ELSE PushNew(NewKeys(p.data, d1), 1, p.stack, p.subgraphs),
              stack     |-> p.stack]

(***************************************************************************)
(* Directions: offsets into a node's 3x3 block.                            *)
(***************************************************************************)
Dir(dx, dy) == [dx |-> dx, dy |-> dy]

UP == Dir(1, 0)

DOWN == Dir(1, 2)

LEFT == Dir(0, 1)

RIGHT == Dir(2, 1)

UPPER_RIGHT == Dir(2, 0)

UPPER_LEFT == Dir(0, 0)

LOWER_RIGHT == Dir(2, 2)

LOWER_LEFT == Dir(0, 2)

MIDDLE == Dir(1, 1)

opposite(d) ==
    CASE d = UP          -> DOWN
      [] d = DOWN        -> UP
      [] d = LEFT        -> RIGHT
      [] d = RIGHT       -> LEFT
      [] d = UPPER_RIGHT -> LOWER_LEFT
      [] d = UPPER_LEFT  -> LOWER_RIGHT
      [] d = LOWER_RIGHT -> UPPER_LEFT
      [] d = LOWER_LEFT  -> UPPER_RIGHT
      [] OTHER           -> MIDDLE

\* GridCoord::direction
direction(c, d) == Coord(c.x + d.dx, c.y + d.dy)

(***************************************************************************)
(* mk_graph and set_subgraphs.                                             *)
(***************************************************************************)
NoCoord == [some |-> FALSE, x |-> 0, y |-> 0]

Some(c) == [some |-> TRUE, x |-> c.x, y |-> c.y]

NoDrawing == << >>

\* node_index_by_name.get(name): 0 when absent.
NodeIndex(ns, name) == IF \E i \in DOMAIN ns : ns[i].name = name
                       THEN CHOOSE i \in DOMAIN ns : ns[i].name = name
                       ELSE 0

get_or_insert_node(ns, name) ==
    IF NodeIndex(ns, name) # 0 THEN ns
    ELSE Append(ns, [name |-> name, grid_coord |-> NoCoord,
                     drawing_coord |-> NoCoord, drawing |-> NoDrawing])

NewEdge(f, t, text) ==
    [from |-> f, to |-> t, text |-> text, path |-> << >>, label_line |-> << >>,
     start_dir |-> MIDDLE, end_dir |-> MIDDLE]

\* The loop of mk_graph over one node's children; g is [nodes, edges].
RECURSIVE MkEdges(_, _, _, _)
MkEdges(parent_idx, children, j, g) ==
    IF j > Len(children) THEN g
    ELSE LET ns == get_or_insert_node(g.nodes, children[j].child)
         IN  MkEdges(parent_idx, children, j + 1,
                     [nodes |-> ns,
                      edges |-> Append(g.edges,
                                       NewEdge(parent_idx,
                                               NodeIndex(ns, children[j].child),
                                               children[j].label))])

\* One pass of the outer loop of mk_graph.
MkNode(entry, g) ==
    LET ns == get_or_insert_node(g.nodes, entry.name)
    IN  MkEdges(NodeIndex(ns, entry.name), entry.edges, 1,
                [nodes |-> ns, edges |-> g.edges])

\* The outer loop of mk_graph over the entries lo..hi, in order.
RECURSIVE MkNodes(_, _, _, _)
MkNodes(d, lo, hi, g) ==
    Strict(g, IF lo > hi THEN g
              ELSE IF lo = hi THEN MkNode(d[lo], g)
              ELSE MkNodes(d, ((lo + hi) \div 2) + 1, hi,
                           MkNodes(d, lo, (lo + hi) \div 2, g)))

mk_graph(d) == MkNodes(d, 1, Len(d), [nodes |-> << >>, edges |-> << >>])

\* The indices of the names that the graph knows, in order.
RECURSIVE NamesToIndices(_, _, _)
NamesToIndices(names, i, ns) ==
    IF i > Len(names) THEN << >>
    ELSE (IF NodeIndex(ns, names[i]) # 0 THEN << NodeIndex(ns, names[i]) >> ELSE << >>)
         \o NamesToIndices(names, i + 1, ns)

set_subgraphs(tsgs, ns) ==
    [ s \in DOMAIN tsgs |->
        [name |-> tsgs[s].name,
         nodes |-> NamesToIndices(tsgs[s].nodes, 1, ns),
         parent |-> tsgs[s].parent,
         children |-> tsgs[s].children,
         min_x |-> 0, min_y |-> 0, max_x |-> 0, max_y |-> 0] ]

(***************************************************************************)
(* create_mapping, placement: roots, then the children of every node.      *)
(***************************************************************************)
get_children(es, node_idx) ==
    LET out == SelectSeq(es, LAMBDA e : e.from = node_idx)
    IN  [ k \in DOMAIN out |-> out[k].to ]

is_node_in_any_subgraph(sgs, node_idx) ==
    \E s \in DOMAIN sgs : Contains(sgs[s].nodes, node_idx)

\* Mutation of nodes_found: the children of the earlier nodes are forgotten,
\* so every node is taken for a root.
EarlierNodes(ns, es, i) == { ns[j].name : j \in 1 .. (i - 1) }

\* nodes_found when the first loop of create_mapping reaches node i: the
\* earlier nodes and their children.
nodes_found(ns, es, i) ==
    { ns[j].name : j \in 1 .. (i - 1) }
    \cup { ns[es[e].to].name : e \in { e \in DOMAIN es : es[e].from < i } }

\* The first loop of create_mapping.
root_nodes(ns, es) ==
    SelectSeq([ i \in DOMAIN ns |-> i ], LAMBDA i : ns[i].name \notin nodes_found(ns, es, i))

\* The roots that are, or are not, inside a subgraph.
RootsWhere(roots, sgs, inside) ==
    SelectSeq(roots, LAMBDA r : is_node_in_any_subgraph(sgs, r) = inside)

\* highest_position_per_level[i] for an index inside the table.
HplGet(h, i) == MapGetOr(h, i, 0)

Block(c) == { Coord(c.x + dx, c.y + dy) : dx \in 0 .. (BlockSize - 1), dy \in 0 .. (BlockSize - 1) }

\* The probing loop of reserve_spot_in_grid.
RECURSIVE FreeSpot(_, _, _)
FreeSpot(g, c, dirn) ==
    IF c \notin DOMAIN g THEN c
    ELSE FreeSpot(g, IF dirn = "LR" THEN Coord(c.x, c.y + LevelStep)
                                   ELSE Coord(c.x + LevelStep, c.y), dirn)

\* Only the origin of the block, as the occupancy test reads it.
OriginOnly(c) == {c}

\* The cells that reserve_spot_in_grid writes once the spot is found.
Reserved(c) == Block(c)

reserve_spot_in_grid(g, node_idx, requested, dirn) ==
    LET c == FreeSpot(g, requested, dirn)
    IN  [coord |-> c,
         grid  |-> [ q \in (DOMAIN g) \cup Reserved(c) |->
                       IF q \in Reserved(c) THEN node_idx ELSE g[q] ]]

\* The coordinate requested for a node of the given level and slot.
Requested(level, slot, dirn) ==
    IF dirn = "LR" THEN Coord(level, slot) ELSE Coord(slot, level)

\* Either root loop of create_mapping; st is [nodes, grid, hpl].
RECURSIVE PlaceRootList(_, _, _, _, _)
PlaceRootList(roots, i, level, dirn, st) ==
    IF i > Len(roots) THEN st
    ELSE LET r == reserve_spot_in_grid(st.grid, roots[i],
                                       Requested(level, HplGet(st.hpl, level), dirn), dirn)
         IN  PlaceRootList(roots, i + 1, level, dirn,
                 [nodes |-> [st.nodes EXCEPT ![roots[i]].grid_coord = Some(r.coord)],
                  grid  |-> r.grid,
                  hpl   |-> MapPut(st.hpl, level, HplGet(st.hpl, level) + LevelStep)])

should_separate(ns, es, sgs, dirn) ==
    LET roots == root_nodes(ns, es)
    IN  /\ dirn = "LR"
        /\ \E k \in DOMAIN roots : ~is_node_in_any_subgraph(sgs, roots[k])
        /\ \E k \in DOMAIN roots : /\ is_node_in_any_subgraph(sgs, roots[k])
                                   /\ Len(get_children(es, roots[k])) > 0

\* Lines 638-710 of create_mapping.
place_roots(ns, es, sgs, dirn) ==
    LET roots == root_nodes(ns, es)
        sep   == should_separate(ns, es, sgs, dirn)
        ext   == IF sep THEN RootsWhere(roots, sgs, FALSE) ELSE roots
        sub   == IF sep THEN RootsWhere(roots, sgs, TRUE) ELSE << >>
        st0   == [nodes |-> ns, grid |-> EmptyMap, hpl |-> EmptyMap]
        st1   == PlaceRootList(ext, 1, 0, dirn, st0)
    IN  PlaceRootList(sub, 1, LevelStep, dirn, st1)

\* A child level that is the level of the node itself.
SameLevel(c, dirn) == IF dirn = "LR" THEN c.x ELSE c.y

child_level(c, dirn) == IF dirn = "LR" THEN c.x + LevelStep ELSE c.y + LevelStep

\* The inner loop of the children loop; hp is highest_position.
RECURSIVE PlaceChildList(_, _, _, _, _, _)
PlaceChildList(kids, i, level, hp, dirn, st) ==
    IF i > Len(kids) THEN st
    ELSE IF st.nodes[kids[i]].grid_coord.some
    THEN PlaceChildList(kids, i + 1, level, hp, dirn, st)
    ELSE LET r == reserve_spot_in_grid(st.grid, kids[i], Requested(level, hp, dirn), dirn)
         IN  PlaceChildList(kids, i + 1, level, hp + LevelStep, dirn,
                 [nodes |-> [st.nodes EXCEPT ![kids[i]].grid_coord = Some(r.coord)],
                  grid  |-> r.grid,
                  hpl   |-> MapPut(st.hpl, level, hp + LevelStep)])

\* One iteration of the children loop, for a node that has a coordinate and
\* whose child level is inside the table.
place_children(node_idx, es, dirn, st) ==
    LET level == child_level(st.nodes[node_idx].grid_coord, dirn)
    IN  PlaceChildList(get_children(es, node_idx), 1, level,
                       HplGet(st.hpl, level), dirn, st)

(***************************************************************************)
(* Grid sizing: set_column_width and increase_grid_size_for_path.          *)
(***************************************************************************)
\* get_node_subgraph: the first subgraph that lists the node, or None.
get_node_subgraph(sgs, node_idx) ==
    IF is_node_in_any_subgraph(sgs, node_idx)
    THEN CHOOSE s \in DOMAIN sgs :
            /\ Contains(sgs[s].nodes, node_idx)
            /\ \A t \in DOMAIN sgs : Contains(sgs[t].nodes, node_idx) => s <= t
    ELSE None

\* Some edge into the node starts outside subgraph sg.
HasExternalEdge(es, sgs, node_idx, sg) ==
    \E e \in DOMAIN es : es[e].to = node_idx /\ get_node_subgraph(sgs, es[e].from) # sg

has_incoming_edge_from_outside_subgraph(ns, es, sgs, node_idx) ==
    LET sg == get_node_subgraph(sgs, node_idx)
    IN  /\ sg # None
        /\ HasExternalEdge(es, sgs, node_idx, sg)
        /\ ~\E k \in DOMAIN sgs[sg].nodes :
               LET other == sgs[sg].nodes[k]
               IN  /\ other # node_idx
                   /\ ns[other].grid_coord.some
                   /\ HasExternalEdge(es, sgs, other, sg)
                   /\ ns[node_idx].grid_coord.some
                   /\ ns[other].grid_coord.y < ns[node_idx].grid_coord.y

\* entry(k).or_insert(0), then max with v.
\* An entry that is overwritten whatever it holds.
Overwrite(m, k, v) == MapPut(m, k, v)

MapMax(m, k, v) == MapPut(m, k, max(MapGetOr(m, k, 0), v))

\* entry(k).or_insert(v)
MapOrInsert(m, k, v) == IF k \in DOMAIN m THEN m ELSE MapPut(m, k, v)

NameLen(node) == Len(node.name)

\* set_column_width; w is [column_width, row_height].
set_column_width(ns, es, sgs, cfg, node_idx, w) ==
    LET gc   == ns[node_idx].grid_coord
        c1   == MapMax(w.column_width, gc.x, 1)
        c2   == MapMax(c1, gc.x + 1, 2 * cfg.box_border_padding + NameLen(ns[node_idx]))
        c3   == MapMax(c2, gc.x + 2, 1)
        r1   == MapMax(w.row_height, gc.y, 1)
        r2   == MapMax(r1, gc.y + 1, 1 + 2 * cfg.box_border_padding)
        r3   == MapMax(r2, gc.y + 2, 1)
        base == cfg.padding_y
                + (IF has_incoming_edge_from_outside_subgraph(ns, es, sgs, node_idx)
                   THEN 4 ELSE 0)
    IN  [column_width |-> IF gc.x > 0 THEN MapPut(c3, gc.x - 1, cfg.padding_x) ELSE c3,
         row_height   |-> IF gc.y > 0 THEN MapMax(r3, gc.y - 1, base) ELSE r3]

PathXs(path) == { path[i].x : i \in DOMAIN path }

PathYs(path) == { path[i].y : i \in DOMAIN path }

\* increase_grid_size_for_path: entries that exist are left alone.
increase_grid_size_for_path(cfg, path, w) ==
    [column_width |-> [ k \in (DOMAIN w.column_width) \cup PathXs(path) |->
                          IF k \in DOMAIN w.column_width THEN w.column_width[k]
                          ELSE Div(cfg.padding_x, 2) ],
     row_height   |-> [ k \in (DOMAIN w.row_height) \cup PathYs(path) |->
                          IF k \in DOMAIN w.row_height THEN w.row_height[k]
                          ELSE Div(cfg.padding_y, 2) ]]

(***************************************************************************)
(* Routing: the binary heap of get_path, A*, merge_path.                   *)
(***************************************************************************)
\* Most pops of the priority queue in one search.
MaxPops == 400

\* The largest column and row index of the canvases of the canvas runs.
MaxCanvasX == 2

MaxCanvasY == 1

\* An estimate that looks at the columns only, and counts each many times
\* over.
ColumnsOnly(a, b) == 8 * Abs(a.x - b.x)

heuristic(a, b) ==
    LET abs_x == Abs(a.x - b.x)
        abs_y == Abs(a.y - b.y)
    IN  IF abs_x = 0 \/ abs_y = 0 THEN abs_x + abs_y ELSE abs_x + abs_y + 1

\* A grid in which no cell is free.
NoCellFree(g, c) == FALSE

is_free_in_grid(g, c) == ~(c.x < 0 \/ c.y < 0) /\ c \notin DOMAIN g

Swap(h, i, j) == [h EXCEPT ![i] = h[j], ![j] = h[i]]

\* QueueItem's Ord is reversed on the priority: a <= b exactly when
\* a.priority >= b.priority.
OrdLe(a, b) == a.priority >= b.priority

\* BinaryHeap::sift_up(0, pos), on positions from 1.
RECURSIVE sift_up(_, _)
sift_up(h, pos) ==
    IF pos <= 1 THEN h
    ELSE IF OrdLe(h[pos], h[pos \div 2]) THEN h
    ELSE sift_up(Swap(h, pos, pos \div 2), pos \div 2)

\* BinaryHeap::sift_down_to_bottom(0) up to its closing sift_up: the heap
\* and the position the element has sunk to.
RECURSIVE sift_down_to_bottom(_, _)
sift_down_to_bottom(h, pos) ==
    LET child == 2 * pos
    IN  IF child + 1 <= Len(h)
        THEN LET c == IF OrdLe(h[child], h[child + 1]) THEN child + 1 ELSE child
             IN  sift_down_to_bottom(Swap(h, pos, c), c)
        ELSE IF child = Len(h) THEN [heap |-> Swap(h, pos, child), pos |-> child]
        ELSE [heap |-> h, pos |-> pos]

\* BinaryHeap::push
heap_push(h, item) == sift_up(Append(h, item), Len(h) + 1)

\* BinaryHeap::pop on a heap that is not empty: the item and the heap left.
heap_pop(h) ==
    LET last == h[Len(h)]
        rest == SubSeq(h, 1, Len(h) - 1)
    IN  IF Len(rest) = 0 THEN [item |-> last, heap |-> rest]
        ELSE LET d == sift_down_to_bottom([rest EXCEPT ![1] = last], 1)
             IN  [item |-> h[1], heap |-> sift_up(d.heap, d.pos)]

\* Moves of which the last is a diagonal one.
DiagonalMoves == << Coord(1, 0), Coord(-1, 0), Coord(0, 1), Coord(1, -1) >>

\* The four moves of get_path, in the order the code tries them.
directions == << Coord(1, 0), Coord(-1, 0), Coord(0, 1), Coord(0, -1) >>

\* The body of the loop over directions; st is [pq, cost_so_far, came_from].
Relax(g, to, current, dir, st) ==
    LET next     == Coord(current.x + dir.x, current.y + dir.y)
        new_cost == MapGetOr(st.cost_so_far, current, 0) + 1
    IN  IF ~is_free_in_grid(g, next) /\ next # to THEN st
        ELSE IF next \notin DOMAIN st.cost_so_far \/ new_cost < st.cost_so_far[next]
        THEN [pq          |-> heap_push(st.pq, [coord |-> next,
                                                priority |-> new_cost + heuristic(next, to)]),
              cost_so_far |-> MapPut(st.cost_so_far, next, new_cost),
              came_from   |-> MapPut(st.came_from, next, Some(current))]
        ELSE st

\* The path that the inner while loop builds from came_from.
RECURSIVE BuildPath(_, _, _)
BuildPath(came, c, path) ==
    IF ~c.some THEN path
    ELSE BuildPath(came, MapGetOr(came, Coord(c.x, c.y), NoCoord),
                   << Coord(c.x, c.y) >> \o path)

\* One pass of the while loop of get_path; s adds [status, path] to st.
AStarStep(g, to, s) ==
    IF Len(s.pq) = 0 THEN [s EXCEPT !.status = "err"]
    ELSE LET popped  == heap_pop(s.pq)
             current == popped.item.coord
             s0      == [pq |-> popped.heap, cost_so_far |-> s.cost_so_far,
                         came_from |-> s.came_from]
         IN  IF current = to
             THEN [pq |-> popped.heap, cost_so_far |-> s.cost_so_far,
                   came_from |-> s.came_from, status |-> "ok",
                   path |-> BuildPath(s.came_from, Some(current), << >>)]
             ELSE LET s4 == Relax(g, to, current, directions[4],
                              Relax(g, to, current, directions[3],
                                Relax(g, to, current, directions[2],
                                  Relax(g, to, current, directions[1], s0))))
                  IN  [pq |-> s4.pq, cost_so_far |-> s4.cost_so_far,
                       came_from |-> s4.came_from, status |-> "run", path |-> << >>]

\* n passes of the while loop, or fewer when the search returns.
RECURSIVE AStarRun(_, _, _, _)
AStarRun(g, to, s, n) ==
    Strict(s, IF s.status # "run" \/ n = 0 THEN s
              ELSE IF n = 1 THEN AStarStep(g, to, s)
              ELSE AStarRun(g, to, AStarRun(g, to, s, n \div 2), n - (n \div 2)))

\* get_path: status "ok" with the path, or "err".
get_path(g, from, to) ==
    AStarRun(g, to,
             [pq          |-> << [coord |-> from, priority |-> 0] >>,
              cost_so_far |-> MapPut(EmptyMap, from, 0),
              came_from   |-> MapPut(EmptyMap, from, NoCoord),
              status      |-> "run",
              path        |-> << >>],
             MaxPops)

determine_direction(from, to) ==
    IF from.x = to.x THEN (IF from.y < to.y THEN DOWN ELSE UP)
    ELSE IF from.y = to.y THEN (IF from.x < to.x THEN RIGHT ELSE LEFT)
    ELSE IF from.x < to.x THEN (IF from.y < to.y THEN LOWER_RIGHT ELSE UPPER_RIGHT)
    ELSE IF from.y < to.y THEN LOWER_LEFT
    ELSE UPPER_LEFT

\* A merge that drops no point.
KeepAll(path) == path

\* merge_path drops every inner point whose two neighbours lie in line with it.
merge_path(path) ==
    IF Len(path) <= 2 THEN path
    ELSE LET keep == SelectSeq([ i \in DOMAIN path |-> i ],
                               LAMBDA i : \/ i = 1
                                          \/ i = Len(path)
                                          \/ determine_direction(path[i - 1], path[i])
                                             # determine_direction(path[i], path[i + 1]))
         IN  [ k \in DOMAIN keep |-> path[keep[k]] ]

self_reference_direction(dirn) ==
    IF dirn = "LR" THEN << RIGHT, DOWN, DOWN, RIGHT >> ELSE << DOWN, RIGHT, RIGHT, DOWN >>

\* determine_start_and_end_dir:
\* << preferred_dir, preferred_opp, alt_dir, alt_opp >>.
determine_start_and_end_dir(dirn, edge, ns) ==
    IF edge.from = edge.to THEN self_reference_direction(dirn)
    ELSE LET d  == determine_direction(ns[edge.from].grid_coord, ns[edge.to].grid_coord)
             lr == dirn = "LR"
         IN  CASE d = LOWER_RIGHT ->
                    IF lr THEN << DOWN, LEFT, RIGHT, UP >> ELSE << RIGHT, UP, DOWN, LEFT >>
               [] d = UPPER_RIGHT ->
                    IF lr THEN << UP, LEFT, RIGHT, DOWN >> ELSE << RIGHT, DOWN, UP, LEFT >>
               [] d = LOWER_LEFT ->
                    IF lr THEN << DOWN, DOWN, LEFT, UP >> ELSE << LEFT, UP, DOWN, RIGHT >>
               [] d = UPPER_LEFT ->
                    IF lr THEN << DOWN, DOWN, LEFT, DOWN >> ELSE << RIGHT, RIGHT, UP, RIGHT >>
               [] OTHER ->
                    IF lr /\ d = LEFT THEN << DOWN, DOWN, LEFT, RIGHT >>
                    ELSE IF dirn = "TD" /\ d = UP THEN << RIGHT, RIGHT, UP, DOWN >>
                    ELSE << d, opposite(d), d, opposite(d) >>

\* Mutation of WithRoute: the two directions change places.
SwappedRoute(edge, sd, ed, path) ==
    [edge EXCEPT !.start_dir = ed, !.end_dir = sd, !.path = path]

\* The edge with the route that determine_path settles on.
WithRoute(edge, sd, ed, path) ==
    [edge EXCEPT !.start_dir = sd, !.end_dir = ed, !.path = path]

\* A choice that takes the alternative route whenever its search succeeds.
PreferAlternative(g, ns, dirn, edge) ==
    LET dirs == determine_start_and_end_dir(dirn, edge, ns)
        alt  == get_path(g, direction(ns[edge.from].grid_coord, dirs[3]),
                         direction(ns[edge.to].grid_coord, dirs[4]))
    IN  IF alt.status = "ok" THEN WithRoute(edge, dirs[3], dirs[4], merge_path(alt.path))
        ELSE WithRoute(edge, dirs[1], dirs[2], << >>)

determine_path(g, ns, dirn, edge) ==
    LET dirs      == determine_start_and_end_dir(dirn, edge, ns)
        from      == direction(ns[edge.from].grid_coord, dirs[1])
        to        == direction(ns[edge.to].grid_coord, dirs[2])
        preferred == get_path(g, from, to)
        from_alt  == direction(ns[edge.from].grid_coord, dirs[3])
        to_alt    == direction(ns[edge.to].grid_coord, dirs[4])
        alt       == get_path(g, from_alt, to_alt)
    IN  IF preferred.status # "ok" THEN WithRoute(edge, dirs[3], dirs[4], << >>)
        ELSE IF alt.status # "ok"
        THEN WithRoute(edge, dirs[1], dirs[2], merge_path(preferred.path))
        ELSE IF Len(merge_path(preferred.path)) <= Len(merge_path(alt.path))
        THEN WithRoute(edge, dirs[1], dirs[2], merge_path(preferred.path))
        ELSE WithRoute(edge, dirs[3], dirs[4], merge_path(alt.path))

\* calculate_line_width of the two-point line << a, b >>.
calculate_line_width(cw, a, b) == MapGetOr(cw, a.x, 0) + MapGetOr(cw, b.x, 0)

\* The segments i of the path (from point i to point i + 1) that the loop of
\* determine_label_line looks at before it breaks.
WideEnough(cw, path, i, label_len) ==
    calculate_line_width(cw, path[i], path[i + 1]) >= label_len

\* The segment that the loop of determine_label_line ends with.
LargestLine(cw, path, label_len) ==
    LET segs == 1 .. (Len(path) - 1)
    IN  IF \E i \in segs : WideEnough(cw, path, i, label_len)
        THEN CHOOSE i \in segs : /\ WideEnough(cw, path, i, label_len)
                                 /\ \A j \in segs : j < i => ~WideEnough(cw, path, j, label_len)
        ELSE IF \A i \in segs : calculate_line_width(cw, path[i], path[i + 1]) <= 0
        THEN 1
        ELSE CHOOSE i \in segs :
                /\ \A j \in segs : calculate_line_width(cw, path[j], path[j + 1])
                                     <= calculate_line_width(cw, path[i], path[i + 1])
                /\ \A j \in segs : j < i => calculate_line_width(cw, path[j], path[j + 1])
                                              < calculate_line_width(cw, path[i], path[i + 1])

\* determine_label_line: the edge and the column widths after it.
determine_label_line(edge, cw) ==
    IF Len(edge.text) = 0 \/ Len(edge.path) < 2
    THEN [edge |-> edge, column_width |-> cw]
    ELSE LET i        == LargestLine(cw, edge.path, Len(edge.text))
             a        == edge.path[i]
             b        == edge.path[i + 1]
             max_x    == max(a.x, b.x)
             min_x    == min(a.x, b.x)
             middle_x == min_x + Div(max_x - min_x, 2)
         IN  [edge         |-> [edge EXCEPT !.label_line = << a, b >>],
              column_width |-> MapMax(cw, middle_x, Len(edge.text) + 2)]

(***************************************************************************)
(* Drawing coordinates and node boxes.                                     *)
(***************************************************************************)
\* The sum of the entries lo..hi of a width map, 0 for a missing entry.
RECURSIVE SumRange(_, _, _)
SumRange(m, lo, hi) ==
    IF lo > hi THEN 0
    ELSE IF lo = hi THEN MapGetOr(m, lo, 0)
    ELSE SumRange(m, lo, (lo + hi) \div 2) + SumRange(m, ((lo + hi) \div 2) + 1, hi)

SumBelow(m, k) == SumRange(m, 0, k - 1)

\* grid_to_drawing_coord with dir = None.
grid_to_drawing_coord(cw, rh, off, c) ==
    Coord(SumBelow(cw, c.x) + Div(MapGetOr(cw, c.x, 0), 2) + off.x,
          SumBelow(rh, c.y) + Div(MapGetOr(rh, c.y, 0), 2) + off.y)

(***************************************************************************)
(* Canvases: a Drawing is a sequence of columns, each a sequence of cells. *)
(***************************************************************************)
Blank == " "

mk_drawing(x, y) == [ i \in 1 .. (x + 1) |-> [ j \in 1 .. (y + 1) |-> Blank ] ]

\* get_drawing_size: an empty drawing reports (0, 0).
SizeX(d) == IF Len(d) = 0 THEN 0 ELSE Len(d) - 1

SizeY(d) == IF Len(d) = 0 THEN 0 ELSE Len(d[1]) - 1

copy_canvas(d) == mk_drawing(SizeX(d), SizeY(d))

InDrawing(d, x, y) == (x + 1) \in DOMAIN d /\ (y + 1) \in DOMAIN d[x + 1]

CellAt(d, x, y) == IF InDrawing(d, x, y) THEN d[x + 1][y + 1] ELSE Blank

\* A growth that adds the new columns at the new height and leaves the old
\* columns as they are.
RaggedGrow(d, x, y) ==
    [ i \in 1 .. (max(x, SizeX(d)) + 1) |->
        IF i \in DOMAIN d THEN d[i]
        ELSE [ j \in 1 .. (max(y, SizeY(d)) + 1) |-> Blank ] ]

increase_size(d, x, y) ==
    [ i \in 1 .. (max(x, SizeX(d)) + 1) |->
        [ j \in 1 .. (max(y, SizeY(d)) + 1) |-> CellAt(d, i - 1, j - 1) ] ]

Write(x, y, v) == [x |-> x, y |-> y, v |-> v]

\* The writes that set_cell does not ignore: no negative coordinate, and on
\* an empty drawing none before the first write that makes it grow.
Effective(d, ws) ==
    { k \in DOMAIN ws :
        /\ ws[k].x >= 0 /\ ws[k].y >= 0
        /\ Len(d) = 0 => \E g \in DOMAIN ws :
                            /\ g <= k /\ ws[g].x >= 0 /\ ws[g].y >= 0
                            /\ (ws[g].x > 0 \/ ws[g].y > 0) }

MaxOf(S, d) == IF S = {} THEN d ELSE CHOOSE q \in S : \A r \in S : r <= q

\* set_cell for every write of ws, in order: the drawing grows to hold each
\* write, and the last write to a cell stays.
set_cells(d, ws) ==
    LET eff == Effective(d, ws)
        nx  == MaxOf({ ws[k].x : k \in eff } \cup {SizeX(d)}, 0)
        ny  == MaxOf({ ws[k].y : k \in eff } \cup {SizeY(d)}, 0)
    IN  IF eff = {} THEN d
        ELSE [ i \in 1 .. (nx + 1) |->
                 [ j \in 1 .. (ny + 1) |->
                     LET hits == { k \in eff : ws[k].x = i - 1 /\ ws[k].y = j - 1 }
                     IN  IF hits = {} THEN CellAt(d, i - 1, j - 1)
                         ELSE ws[MaxOf(hits, 0)].v ] ]

set_cell(d, x, y, v) == set_cells(d, << Write(x, y, v) >>)

\* A run of writes of one glyph: cell k of n.
Run(n, X(_), Y(_), v) == [ k \in 1 .. n |-> Write(X(k), Y(k), v) ]

\* drawing_to_string, one string of cells per row.
drawing_to_string(d) ==
    [ j \in 1 .. (SizeY(d) + 1) |-> [ i \in 1 .. (SizeX(d) + 1) |-> d[i][j] ] ]

(***************************************************************************)
(* Glyphs.  A cell holds one string; a glyph outside ASCII is written as   *)
(* its code point.                                                         *)
(***************************************************************************)
Box ==
    [h  |-> "U+2500", v  |-> "U+2502", dr |-> "U+250C", dl |-> "U+2510",
     ur |-> "U+2514", ul |-> "U+2518", vr |-> "U+251C", vl |-> "U+2524",
     dh |-> "U+252C", uh |-> "U+2534", vh |-> "U+253C",
     sl |-> "U+2574", su |-> "U+2575", sr |-> "U+2576", sd |-> "U+2577",
     bs |-> "U+2572", fs |-> "U+2571"]

Arrow ==
    [up |-> "U+25B2", down |-> "U+25BC", left |-> "U+25C4", right |-> "U+25BA",
     upper_right |-> "U+25E5", upper_left |-> "U+25E4",
     lower_right |-> "U+25E2", lower_left |-> "U+25E3", dot |-> "U+25CF"]

\* Every glyph outside ASCII that the renderers can write.
NonAscii == { Box[f] : f \in DOMAIN Box } \cup { Arrow[f] : f \in DOMAIN Arrow }

(***************************************************************************)
(* Junction merging.                                                       *)
(***************************************************************************)
is_junction_char(c) ==
    c \in {Box.h, Box.v, Box.dr, Box.dl, Box.ur, Box.ul, Box.vr, Box.vl,
            Box.dh, Box.uh, Box.vh, Box.sl, Box.su, Box.sr, Box.sd}

\* The rows of the table of merge_junctions: << other, merged >> for c1.
JunctionRow(c1) ==
    CASE c1 = Box.h ->
           << << Box.v, Box.vh >>, << Box.dr, Box.dh >>, << Box.dl, Box.dh >>,
              << Box.ur, Box.uh >>, << Box.ul, Box.uh >>, << Box.vr, Box.vh >>,
              << Box.vl, Box.vh >>, << Box.dh, Box.dh >>, << Box.uh, Box.uh >> >>
      [] c1 = Box.v ->
           << << Box.h, Box.vh >>, << Box.dr, Box.vr >>, << Box.dl, Box.vl >>,
              << Box.ur, Box.vr >>, << Box.ul, Box.vl >>, << Box.vr, Box.vr >>,
              << Box.vl, Box.vl >>, << Box.dh, Box.vh >>, << Box.uh, Box.vh >> >>
      [] c1 = Box.dr ->
           << << Box.h, Box.dh >>, << Box.v, Box.vr >>, << Box.dl, Box.dh >>,
              << Box.ur, Box.vr >>, << Box.ul, Box.vh >>, << Box.vr, Box.vr >>,
              << Box.vl, Box.vh >>, << Box.dh, Box.dh >>, << Box.uh, Box.vh >> >>
      [] c1 = Box.dl ->
           << << Box.h, Box.dh >>, << Box.v, Box.vl >>, << Box.dr, Box.dh >>,
              << Box.ur, Box.vh >>, << Box.ul, Box.vl >>, << Box.vr, Box.vh >>,
              << Box.vl, Box.vl >>, << Box.dh, Box.dh >>, << Box.uh, Box.vh >> >>
      [] c1 = Box.ur ->
           << << Box.h, Box.uh >>, << Box.v, Box.vr >>, << Box.dr, Box.vr >>,
              << Box.dl, Box.vh >>, << Box.ul, Box.uh >>, << Box.vr, Box.vr >>,
              << Box.vl, Box.vh >>, << Box.dh, Box.vh >>, << Box.uh, Box.uh >> >>
      [] c1 = Box.ul ->
           << << Box.h, Box.uh >>, << Box.v, Box.vl >>, << Box.dr, Box.vh >>,
              << Box.dl, Box.vl >>, << Box.ur, Box.uh >>, << Box.vr, Box.vh >>,
              << Box.vl, Box.vl >>, << Box.dh, Box.vh >>, << Box.uh, Box.uh >> >>
      [] c1 = Box.vr ->
           << << Box.h, Box.vh >>, << Box.v, Box.vr >>, << Box.dr, Box.vr >>,
              << Box.dl, Box.vh >>, << Box.ur, Box.vr >>, << Box.ul, Box.vh >>,
              << Box.vl, Box.vh >>, << Box.dh, Box.vh >>, << Box.uh, Box.vh >> >>
      [] c1 = Box.vl ->
           << << Box.h, Box.vh >>, << Box.v, Box.vl >>, << Box.dr, Box.vh >>,
              << Box.dl, Box.vl >>, << Box.ur, Box.vh >>, << Box.ul, Box.vl >>,
              << Box.vr, Box.vh >>, << Box.dh, Box.vh >>, << Box.uh, Box.vh >> >>
      [] c1 = Box.dh ->
           << << Box.h, Box.dh >>, << Box.v, Box.vh >>, << Box.dr, Box.dh >>,
              << Box.dl, Box.dh >>, << Box.ur, Box.vh >>, << Box.ul, Box.vh >>,
              << Box.vr, Box.vh >>, << Box.vl, Box.vh >>, << Box.uh, Box.vh >> >>
      [] c1 = Box.uh ->
           << << Box.h, Box.uh >>, << Box.v, Box.vh >>, << Box.dr, Box.vh >>,
              << Box.dl, Box.vh >>, << Box.ur, Box.uh >>, << Box.ul, Box.uh >>,
              << Box.vr, Box.vh >>, << Box.vl, Box.vh >>, << Box.dh, Box.vh >> >>
      [] OTHER -> << >>

merge_junctions(c1, c2) ==
    LET row == JunctionRow(c1)
    IN  IF \E k \in DOMAIN row : row[k][1] = c2
        THEN row[CHOOSE k \in DOMAIN row :
                    /\ row[k][1] = c2
                    /\ \A j \in DOMAIN row : row[j][1] = c2 => k <= j][2]
        ELSE c1

\* The arms of a junction glyph: << up, down, left, right >>.
junction_dirs(c) ==
    CASE c = Box.h  -> << FALSE, FALSE, TRUE, TRUE >>
      [] c = Box.v  -> << TRUE, TRUE, FALSE, FALSE >>
      [] c = Box.dr -> << FALSE, TRUE, FALSE, TRUE >>
      [] c = Box.dl -> << FALSE, TRUE, TRUE, FALSE >>
      [] c = Box.ur -> << TRUE, FALSE, FALSE, TRUE >>
      [] c = Box.ul -> << TRUE, FALSE, TRUE, FALSE >>
      [] c = Box.vr -> << TRUE, TRUE, FALSE, TRUE >>
      [] c = Box.vl -> << TRUE, TRUE, TRUE, FALSE >>
      [] c = Box.dh -> << FALSE, TRUE, TRUE, TRUE >>
      [] c = Box.uh -> << TRUE, FALSE, TRUE, TRUE >>
      [] c = Box.vh -> << TRUE, TRUE, TRUE, TRUE >>
      [] c = Box.sl -> << FALSE, FALSE, TRUE, FALSE >>
      [] c = Box.su -> << TRUE, FALSE, FALSE, FALSE >>
      [] c = Box.sr -> << FALSE, FALSE, FALSE, TRUE >>
      [] c = Box.sd -> << FALSE, TRUE, FALSE, FALSE >>
      [] OTHER      -> << FALSE, FALSE, FALSE, FALSE >>

DirsOr(s, t) == [ k \in 1 .. 4 |-> s[k] \/ t[k] ]

(***************************************************************************)
(* Rasterisation: merge_drawings, boxes, subgraph frames, arrows.          *)
(***************************************************************************)
\* The cell of the merged canvas at (x, y) once the drawings k.. are laid
\* over cur, in order.
RECURSIVE MergeCell(_, _, _, _, _, _, _)
MergeCell(cur, drawings, k, x, y, off, use_ascii) ==
    IF k > Len(drawings) THEN cur
    ELSE LET value == CellAt(drawings[k], x - off.x, y - off.y)
         IN  MergeCell(IF value = Blank THEN cur
                       ELSE IF ~use_ascii /\ is_junction_char(value) /\ is_junction_char(cur)
                       THEN merge_junctions(cur, value)
                       ELSE value,
                       drawings, k + 1, x, y, off, use_ascii)

\* merge_drawings indexes the merged canvas with a negative number.
MergePanics(off, drawings) ==
    \E k \in DOMAIN drawings : \E i \in DOMAIN drawings[k] : \E j \in DOMAIN drawings[k][i] :
        /\ drawings[k][i][j] # Blank
        /\ (i - 1 + off.x < 0 \/ j - 1 + off.y < 0)

merge_drawings(base, off, drawings, use_ascii) ==
    LET max_x == MaxOf({SizeX(base)} \cup { SizeX(drawings[k]) + off.x : k \in DOMAIN drawings }, 0)
        max_y == MaxOf({SizeY(base)} \cup { SizeY(drawings[k]) + off.y : k \in DOMAIN drawings }, 0)
    IN  [ i \in 1 .. (max_x + 1) |->
            [ j \in 1 .. (max_y + 1) |->
                MergeCell(CellAt(base, i - 1, j - 1), drawings, 1, i - 1, j - 1,
                          off, use_ascii) ] ]

\* The frame that draw_box and draw_subgraph write on a canvas of w by h.
FrameWrites(w, h, use_ascii) ==
    LET hz == IF use_ascii THEN "-" ELSE Box.h
        vt == IF use_ascii THEN "|" ELSE Box.v
    IN  Run(w - 1, LAMBDA k : k, LAMBDA k : 0, hz)
        \o Run(w - 1, LAMBDA k : k, LAMBDA k : h, hz)
        \o Run(h - 1, LAMBDA k : 0, LAMBDA k : k, vt)
        \o Run(h - 1, LAMBDA k : w, LAMBDA k : k, vt)
        \o << Write(0, 0, IF use_ascii THEN "+" ELSE Box.dr),
              Write(w, 0, IF use_ascii THEN "+" ELSE Box.dl),
              Write(0, h, IF use_ascii THEN "+" ELSE Box.ur),
              Write(w, h, IF use_ascii THEN "+" ELSE Box.ul) >>

\* Where draw_box puts the first character of the name.
TextX(w, name_len) == Div(w, 2) - ceil_div(name_len, 2) + 1

TextY(h) == Div(h, 2)

BoxW(cw, gc) == MapGetOr(cw, gc.x, 0) + MapGetOr(cw, gc.x + 1, 0)

BoxH(rh, gc) == MapGetOr(rh, gc.y, 0) + MapGetOr(rh, gc.y + 1, 0)

draw_box(node, cw, rh, use_ascii) ==
    LET w == BoxW(cw, node.grid_coord)
        h == BoxH(rh, node.grid_coord)
    IN  set_cells(mk_drawing(w, h),
                  FrameWrites(w, h, use_ascii)
                  \o [ i \in DOMAIN node.name |->
                         Write(TextX(w, Len(node.name)) + i - 1, TextY(h), node.name[i]) ])

draw_subgraph(sg, use_ascii) ==
    LET width  == sg.max_x - sg.min_x
        height == sg.max_y - sg.min_y
    IN  IF width <= 0 \/ height <= 0 THEN mk_drawing(0, 0)
        ELSE set_cells(mk_drawing(width, height), FrameWrites(width, height, use_ascii))

\* draw_subgraph_label: the drawing and the offset it is merged at.
draw_subgraph_label(sg) ==
    LET width   == sg.max_x - sg.min_x
        height  == sg.max_y - sg.min_y
        label_x == max(Div(width, 2) - Div(Len(sg.name), 2), 1)
        shown   == SelectSeq([ i \in DOMAIN sg.name |-> i ], LAMBDA i : label_x + i - 1 < width)
    IN  IF width <= 0 \/ height <= 0
        THEN [drawing |-> mk_drawing(0, 0), offset |-> Coord(0, 0)]
        ELSE [drawing |-> set_cells(mk_drawing(width, height),
                                    [ k \in DOMAIN shown |->
                                        Write(label_x + shown[k] - 1, 1, sg.name[shown[k]]) ]),
              offset  |-> Coord(sg.min_x, sg.min_y)]

\* The cells that draw_line visits from one drawing coordinate to another.
LineCells(from, to, offset_from, offset_to) ==
    LET d  == determine_direction(from, to)
        nd == \* passes of the while loop of a diagonal
              CASE d = UPPER_LEFT ->
                     min(from.x - (to.x - offset_to), (from.y - offset_from) - (to.y - offset_to)) + 1
                [] d = UPPER_RIGHT ->
                     min((to.x + offset_to) - from.x, (from.y - offset_from) - (to.y - offset_to)) + 1
                [] d = LOWER_LEFT ->
                     min(from.x - (to.x - offset_to), (to.y + offset_to) - (from.y + offset_from)) + 1
                [] d = LOWER_RIGHT ->
                     min((to.x + offset_to) - from.x, (to.y + offset_to) - (from.y + offset_from)) + 1
                [] OTHER -> 0
    IN  CASE d = UP ->
               [ k \in 1 .. ((from.y - offset_from) - (to.y - offset_to) + 1) |->
                   Coord(from.x, to.y - offset_to + k - 1) ]
          [] d = DOWN ->
               [ k \in 1 .. ((to.y + offset_to) - (from.y + offset_from) + 1) |->
                   Coord(from.x, from.y + offset_from + k - 1) ]
          [] d = LEFT ->
               [ k \in 1 .. ((from.x - offset_from) - (to.x - offset_to) + 1) |->
                   Coord(to.x - offset_to + k - 1, from.y) ]
          [] d = RIGHT ->
               [ k \in 1 .. ((to.x + offset_to) - (from.x + offset_from) + 1) |->
                   Coord(from.x + offset_from + k - 1, from.y) ]
          [] d = UPPER_LEFT ->
               [ k \in 1 .. nd |-> Coord(from.x - (k - 1), from.y - offset_from - (k - 1)) ]
          [] d = UPPER_RIGHT ->
               [ k \in 1 .. nd |-> Coord(from.x + (k - 1), from.y - offset_from - (k - 1)) ]
          [] d = LOWER_LEFT ->
               [ k \in 1 .. nd |-> Coord(from.x - (k - 1), from.y + offset_from + (k - 1)) ]
          [] d = LOWER_RIGHT ->
               [ k \in 1 .. nd |-> Coord(from.x + (k - 1), from.y + offset_from + (k - 1)) ]
          [] OTHER -> << >>

\* Mutation of LineGlyph: the Unicode glyph whatever the character set.
UnicodeLine(d, use_ascii) == IF d = UP \/ d = DOWN THEN Box.v ELSE Box.h

\* The glyph that draw_line writes for a direction.
LineGlyph(d, use_ascii) ==
    CASE d = UP \/ d = DOWN                 -> IF use_ascii THEN "|" ELSE Box.v
      [] d = LEFT \/ d = RIGHT              -> IF use_ascii THEN "-" ELSE Box.h
      [] d = UPPER_LEFT \/ d = LOWER_RIGHT  -> IF use_ascii THEN "\\" ELSE Box.bs
      [] d = UPPER_RIGHT \/ d = LOWER_LEFT  -> IF use_ascii THEN "/" ELSE Box.fs
      [] OTHER                              -> Blank

(***************************************************************************)
(* Arrows.  g is the graph as the drawing code reads it: column_width,     *)
(* row_height, offset, use_ascii and the canvas drawing.                   *)
(***************************************************************************)
DC(g, c) == grid_to_drawing_coord(g.column_width, g.row_height, g.offset, c)

\* The steps of a path that draw_path does not skip: those whose two ends
\* fall on different drawing coordinates.
PathSegs(g, path) ==
    SelectSeq([ i \in 1 .. (Len(path) - 1) |-> i ],
              LAMBDA i : DC(g, path[i]) # DC(g, path[i + 1]))

SegLine(g, path, i) == LineCells(DC(g, path[i]), DC(g, path[i + 1]), 1, -1)

RECURSIVE SegWrites(_, _, _, _)
SegWrites(g, path, segs, k) ==
    IF k > Len(segs) THEN << >>
    ELSE LET line  == SegLine(g, path, segs[k])
             glyph == LineGlyph(determine_direction(DC(g, path[segs[k]]),
                                                    DC(g, path[segs[k] + 1])),
                                g.use_ascii)
         IN  [ c \in DOMAIN line |-> Write(line[c].x, line[c].y, glyph) ]
             \o SegWrites(g, path, segs, k + 1)

\* draw_path: the line drawing, the cells of every line and its direction.
draw_path(g, path) ==
    LET segs == PathSegs(g, path)
    IN  [drawing     |-> set_cells(copy_canvas(g.drawing), SegWrites(g, path, segs, 1)),
         lines_drawn |-> [ k \in DOMAIN segs |->
                             IF Len(SegLine(g, path, segs[k])) = 0
                             THEN << DC(g, path[segs[k]]) >>
                             ELSE SegLine(g, path, segs[k]) ],
         line_dirs   |-> [ k \in DOMAIN segs |->
                             determine_direction(path[segs[k]], path[segs[k] + 1]) ]]

draw_box_start(g, path, first_line) ==
    IF g.use_ascii \/ Len(first_line) = 0 THEN copy_canvas(g.drawing)
    ELSE LET from == first_line[1]
             dir  == determine_direction(path[1], path[2])
         IN  CASE dir = UP    -> set_cell(copy_canvas(g.drawing), from.x, from.y + 1, Box.uh)
               [] dir = DOWN  -> set_cell(copy_canvas(g.drawing), from.x, from.y - 1, Box.dh)
               [] dir = LEFT  -> set_cell(copy_canvas(g.drawing), from.x + 1, from.y, Box.vl)
               [] dir = RIGHT -> set_cell(copy_canvas(g.drawing), from.x - 1, from.y, Box.vr)
               [] OTHER       -> copy_canvas(g.drawing)

\* The glyph of an arrow head pointing in dir, Blank when the direction has none.
HeadGlyph(dir, use_ascii) ==
    IF use_ascii
    THEN CASE dir = UP    -> "^"
           [] dir = DOWN  -> "v"
           [] dir = LEFT  -> "<"
           [] dir = RIGHT -> ">"
           [] OTHER       -> Blank
    ELSE CASE dir = UP          -> Arrow.up
           [] dir = DOWN        -> Arrow.down
           [] dir = LEFT        -> Arrow.left
           [] dir = RIGHT       -> Arrow.right
           [] dir = UPPER_RIGHT -> Arrow.upper_right
           [] dir = UPPER_LEFT  -> Arrow.upper_left
           [] dir = LOWER_RIGHT -> Arrow.lower_right
           [] dir = LOWER_LEFT  -> Arrow.lower_left
           [] OTHER             -> Blank

draw_arrow_head(g, line, fallback) ==
    IF Len(line) = 0 THEN copy_canvas(g.drawing)
    ELSE LET from == line[1]
             last == line[Len(line)]
             d0   == determine_direction(from, last)
             dir  == IF Len(line) = 1 \/ d0 = MIDDLE THEN fallback ELSE d0
             ch   == IF HeadGlyph(dir, g.use_ascii) # Blank THEN HeadGlyph(dir, g.use_ascii)
                     ELSE IF HeadGlyph(fallback, g.use_ascii) # Blank
                     THEN HeadGlyph(fallback, g.use_ascii)
                     ELSE IF g.use_ascii THEN "*" ELSE Arrow.dot
         IN  set_cell(copy_canvas(g.drawing), last.x, last.y, ch)

\* The glyph draw_corners puts on an inner point of a path.
Corner(prev_dir, next_dir, use_ascii) ==
    IF use_ascii THEN "+"
    ELSE IF (prev_dir = RIGHT /\ next_dir = DOWN) \/ (prev_dir = UP /\ next_dir = LEFT)
    THEN Box.dl
    ELSE IF (prev_dir = RIGHT /\ next_dir = UP) \/ (prev_dir = DOWN /\ next_dir = LEFT)
    THEN Box.ul
    ELSE IF (prev_dir = LEFT /\ next_dir = DOWN) \/ (prev_dir = UP /\ next_dir = RIGHT)
    THEN Box.dr
    ELSE IF (prev_dir = LEFT /\ next_dir = UP) \/ (prev_dir = DOWN /\ next_dir = RIGHT)
    THEN Box.ur
    ELSE "+"

draw_corners(g, path) ==
    set_cells(copy_canvas(g.drawing),
              [ k \in 1 .. (Len(path) - 2) |->
                  Write(DC(g, path[k + 1]).x, DC(g, path[k + 1]).y,
                        Corner(determine_direction(path[k], path[k + 1]),
                               determine_direction(path[k + 1], path[k + 2]),
                               g.use_ascii)) ])

draw_text(d, start, text) ==
    set_cells(increase_size(d, start.x + Len(text), start.y),
              [ i \in DOMAIN text |-> Write(start.x + i - 1, start.y, text[i]) ])

draw_text_on_line(d, line, label) ==
    IF Len(line) < 2 THEN d
    ELSE LET min_x == min(line[1].x, line[2].x)
             max_x == max(line[1].x, line[2].x)
             min_y == min(line[1].y, line[2].y)
             max_y == max(line[1].y, line[2].y)
             middle_x == min_x + Div(max_x - min_x, 2)
             middle_y == min_y + Div(max_y - min_y, 2)
         IN  draw_text(d, Coord(middle_x - Div(Len(label), 2), middle_y), label)

line_to_drawing(g, line) == [ k \in DOMAIN line |-> DC(g, line[k]) ]

draw_arrow_label(g, edge) ==
    IF Len(edge.text) = 0 \/ Len(edge.label_line) < 2 THEN copy_canvas(g.drawing)
    ELSE draw_text_on_line(copy_canvas(g.drawing), line_to_drawing(g, edge.label_line),
                           edge.text)

\* draw_arrow reads lines_drawn[0]: it panics on a path none of whose steps
\* moves on the canvas.
ArrowPanics(g, edge) == Len(edge.path) > 0 /\ Len(PathSegs(g, edge.path)) = 0

EmptyLayers ==
    [line |-> mk_drawing(0, 0), box_start |-> mk_drawing(0, 0),
     arrow_head |-> mk_drawing(0, 0), corners |-> mk_drawing(0, 0),
     label |-> mk_drawing(0, 0)]

\* draw_edge and draw_arrow: the five layers of one edge.
draw_arrow(g, edge) ==
    IF Len(edge.path) = 0 THEN EmptyLayers
    ELSE LET p == draw_path(g, edge.path)
         IN  [line       |-> p.drawing,
              box_start  |-> draw_box_start(g, edge.path, p.lines_drawn[1]),
              arrow_head |-> draw_arrow_head(g, p.lines_drawn[Len(p.lines_drawn)],
                                             p.line_dirs[Len(p.line_dirs)]),
              corners    |-> draw_corners(g, edge.path),
              label      |-> draw_arrow_label(g, edge)]

(***************************************************************************)
(* create_mapping after placement: sizes, routes, boxes, subgraph boxes.   *)
(***************************************************************************)
\* The loop of set_column_width over the nodes i.., in order.
RECURSIVE set_column_widths(_, _, _, _, _, _)
set_column_widths(ns, es, sgs, cfg, i, w) ==
    Strict(w, IF i > Len(ns) THEN w
              ELSE set_column_widths(ns, es, sgs, cfg, i + 1,
                                     set_column_width(ns, es, sgs, cfg, i, w)))

\* One pass of the edge loop of create_mapping; r is [edges, column_width,
\* row_height].
\* The rest of one pass of the edge loop, for the edge that determine_path
\* has routed and the grid w that increase_grid_size_for_path has widened.
label_edge(edge, w, e, r) ==
    LET ll == determine_label_line(edge, w.column_width)
    IN  [edges        |-> [r.edges EXCEPT ![e] = ll.edge],
         column_width |-> ll.column_width,
         row_height   |-> w.row_height]

widen_for_edge(edge, cfg, e, r) ==
    label_edge(edge,
               increase_grid_size_for_path(cfg, edge.path,
                   [column_width |-> r.column_width, row_height |-> r.row_height]),
               e, r)

\* One pass of the edge loop of create_mapping.
route_edge(g, ns, cfg, e, r) ==
    widen_for_edge(determine_path(g, ns, cfg.dirn, r.edges[e]), cfg, e, r)

RECURSIVE route_edges(_, _, _, _, _)
route_edges(g, ns, cfg, e, r) ==
    Strict(r, IF e > Len(r.edges) THEN r
              ELSE route_edges(g, ns, cfg, e + 1, route_edge(g, ns, cfg, e, r)))

\* The last node loop of create_mapping: drawing coordinates and boxes.
draw_boxes(ns, cw, rh, cfg) ==
    [ i \in DOMAIN ns |->
        [ns[i] EXCEPT
            !.drawing_coord = Some(grid_to_drawing_coord(cw, rh, Coord(0, 0), ns[i].grid_coord)),
            !.drawing = draw_box(ns[i], cw, rh, cfg.use_ascii)] ]

\* Mutation of SumValues: a sum that depends on the order of the visit, each
\* value being counted as many times as its place in the visit.
VisitWeighted(m, keys, order) ==
    Cardinality(UNION { { << k, n, p >> : n \in 1 .. m[k],
                                          p \in { q \in keys : IF order = "asc" THEN q <= k
                                                                ELSE k <= q } } : k \in keys })

\* values().sum() of a hash map, visiting the keys in ascending or in
\* descending order.
RECURSIVE SumValues(_, _, _)
SumValues(m, keys, order) ==
    IF keys = {} THEN 0
    ELSE LET k == IF order = "asc" THEN CHOOSE q \in keys : \A r \in keys : q <= r
                  ELSE CHOOSE q \in keys : \A r \in keys : r <= q
         IN  m[k] + SumValues(m, keys \ {k}, order)

HashOrders == {"asc", "desc"}

set_drawing_size_to_grid_constraints(d, cw, rh, order) ==
    increase_size(d, SumValues(cw, DOMAIN cw, order) - 1, SumValues(rh, DOMAIN rh, order) - 1)

Far == 1000000

\* calculate_subgraph_bounding_box: the box of subgraph s, from those of its
\* children and from its nodes.
RECURSIVE calculate_subgraph_bounding_box(_, _, _)
calculate_subgraph_bounding_box(sgs, ns, s) ==
    IF Len(sgs[s].nodes) = 0
    THEN [min_x |-> sgs[s].min_x, min_y |-> sgs[s].min_y,
          max_x |-> sgs[s].max_x, max_y |-> sgs[s].max_y]
    ELSE LET kids  == { c \in Range(sgs[s].children) : Len(sgs[c].nodes) > 0 }
             kb    == [ c \in kids |-> calculate_subgraph_bounding_box(sgs, ns, c) ]
             mine  == { n \in Range(sgs[s].nodes) :
                          ns[n].drawing_coord.some /\ ns[n].drawing # NoDrawing }
             min_x == MaxOf({ 0 - kb[c].min_x : c \in kids }
                            \cup { 0 - ns[n].drawing_coord.x : n \in mine }, 0 - Far)
             min_y == MaxOf({ 0 - kb[c].min_y : c \in kids }
                            \cup { 0 - ns[n].drawing_coord.y : n \in mine }, 0 - Far)
             max_x == MaxOf({ kb[c].max_x : c \in kids }
                            \cup { ns[n].drawing_coord.x + Len(ns[n].drawing) - 1 : n \in mine },
                            0 - Far)
             max_y == MaxOf({ kb[c].max_y : c \in kids }
                            \cup { ns[n].drawing_coord.y + Len(ns[n].drawing[1]) - 1 : n \in mine },
                            0 - Far)
         IN  [min_x |-> (0 - min_x) - SubgraphPadding,
              min_y |-> (0 - min_y) - SubgraphPadding - SubgraphLabelSpace,
              max_x |-> max_x + SubgraphPadding,
              max_y |-> max_y + SubgraphPadding]

WithBox(sg, b) ==
    [sg EXCEPT !.min_x = b.min_x, !.min_y = b.min_y, !.max_x = b.max_x, !.max_y = b.max_y]

\* One pass of the inner loop of ensure_subgraph_spacing, for the pair of
\* root subgraphs (a, b).
SpacePair(sgs, a, b) ==
    LET sg1 == sgs[a]
        sg2 == sgs[b]
        v   == IF sg1.min_x < sg2.max_x /\ sg1.max_x > sg2.min_x
               THEN IF sg1.max_y >= sg2.min_y - MinSpacing /\ sg1.min_y < sg2.min_y
                    THEN [sgs EXCEPT ![b].min_y = sg1.max_y + MinSpacing + 1]
                    ELSE IF sg2.max_y >= sg1.min_y - MinSpacing /\ sg2.min_y < sg1.min_y
                    THEN [sgs EXCEPT ![a].min_y = sg2.max_y + MinSpacing + 1]
                    ELSE sgs
               ELSE sgs
        t1  == v[a]
        t2  == v[b]
    IN  IF t1.min_y < t2.max_y /\ t1.max_y > t2.min_y
        THEN IF t1.max_x >= t2.min_x - MinSpacing /\ t1.min_x < t2.min_x
             THEN [v EXCEPT ![b].min_x = t1.max_x + MinSpacing + 1]
             ELSE IF t2.max_x >= t1.min_x - MinSpacing /\ t2.min_x < t1.min_x
             THEN [v EXCEPT ![a].min_x = t2.max_x + MinSpacing + 1]
             ELSE v
        ELSE v

RootSubgraphs(sgs) ==
    SelectSeq([ s \in DOMAIN sgs |-> s ],
              LAMBDA s : sgs[s].parent = None /\ Len(sgs[s].nodes) > 0)

RECURSIVE SpaceFrom(_, _, _, _)
SpaceFrom(sgs, roots, i, j) ==
    IF i > Len(roots) THEN sgs
    ELSE IF j > Len(roots) THEN SpaceFrom(sgs, roots, i + 1, i + 2)
    ELSE SpaceFrom(SpacePair(sgs, roots[i], roots[j]), roots, i, j + 1)

ensure_subgraph_spacing(sgs) == SpaceFrom(sgs, RootSubgraphs(sgs), 1, 2)

calculate_subgraph_bounding_boxes(sgs, ns) ==
    ensure_subgraph_spacing(
        [ s \in DOMAIN sgs |-> WithBox(sgs[s], calculate_subgraph_bounding_box(sgs, ns, s)) ])

\* The offset that offset_drawing_for_subgraphs settles on.
SubgraphOffset(sgs) ==
    Coord(MaxOf({ 0 - sgs[s].min_x : s \in DOMAIN sgs }, 0),
          MaxOf({ 0 - sgs[s].min_y : s \in DOMAIN sgs }, 0))

Shifted(c, off) == IF c.some THEN [c EXCEPT !.x = @ + off.x, !.y = @ + off.y] ELSE c

\* Mutation of offset_drawing_for_subgraphs: nothing is shifted.
NoOffset(r) == r

\* offset_drawing_for_subgraphs; r is [subgraphs, nodes, offset].
offset_drawing_for_subgraphs(r) ==
    LET off == Coord(max(SubgraphOffset(r.subgraphs).x, 0), max(SubgraphOffset(r.subgraphs).y, 0))
    IN  IF Len(r.subgraphs) = 0 \/ off = Coord(0, 0) THEN r
        ELSE [subgraphs |-> [ s \in DOMAIN r.subgraphs |->
                                [r.subgraphs[s] EXCEPT !.min_x = @ + off.x, !.min_y = @ + off.y,
                                                       !.max_x = @ + off.x, !.max_y = @ + off.y] ],
              nodes     |-> [ i \in DOMAIN r.nodes |->
                                [r.nodes[i] EXCEPT !.drawing_coord = Shifted(@, off)] ],
              offset    |-> off]

(***************************************************************************)
(* draw: subgraph frames, nodes, the five edge layers, subgraph labels.    *)
(***************************************************************************)
RECURSIVE get_subgraph_depth(_, _)
get_subgraph_depth(sgs, s) ==
    IF sgs[s].parent # None THEN 1 + get_subgraph_depth(sgs, sgs[s].parent) ELSE 0

\* sort_by_key is stable: equal depths keep the order of the indices.
sort_subgraphs_by_depth(sgs) ==
    LET Before(t, s) == \/ get_subgraph_depth(sgs, t) < get_subgraph_depth(sgs, s)
                        \/ (get_subgraph_depth(sgs, t) = get_subgraph_depth(sgs, s) /\ t < s)
    IN  [ k \in DOMAIN sgs |->
            CHOOSE s \in DOMAIN sgs :
                Cardinality({ t \in DOMAIN sgs : Before(t, s) }) = k - 1 ]

\* merge_drawings of one drawing after another, each at its own offset;
\* r is [drawing, panic].
RECURSIVE MergeEach(_, _, _, _)
MergeEach(r, items, k, use_ascii) ==
    Strict(r, IF k > Len(items) \/ r.panic THEN r
              ELSE IF MergePanics(items[k].offset, << items[k].drawing >>)
              THEN [r EXCEPT !.panic = TRUE]
              ELSE MergeEach([drawing |-> merge_drawings(r.drawing, items[k].offset,
                                                         << items[k].drawing >>, use_ascii),
                              panic   |-> FALSE],
                             items, k + 1, use_ascii))

NonEmpty(sgs, order) == SelectSeq(order, LAMBDA s : Len(sgs[s].nodes) > 0)

SubgraphFrames(sgs, use_ascii) ==
    LET shown == NonEmpty(sgs, sort_subgraphs_by_depth(sgs))
    IN  [ k \in DOMAIN shown |->
            [offset  |-> Coord(sgs[shown[k]].min_x, sgs[shown[k]].min_y),
             drawing |-> draw_subgraph(sgs[shown[k]], use_ascii)] ]

SubgraphLabels(sgs) ==
    LET shown == NonEmpty(sgs, [ s \in DOMAIN sgs |-> s ])
    IN  [ k \in DOMAIN shown |-> draw_subgraph_label(sgs[shown[k]]) ]

NodeBoxes(ns) ==
    LET shown == SelectSeq([ i \in DOMAIN ns |-> i ],
                           LAMBDA i : ns[i].drawing_coord.some /\ ns[i].drawing # NoDrawing)
    IN  [ k \in DOMAIN shown |->
            [offset  |-> Coord(ns[shown[k]].drawing_coord.x, ns[shown[k]].drawing_coord.y),
             drawing |-> ns[shown[k]].drawing] ]

\* The canvas of draw once the subgraph frames and the nodes are merged.
draw_nodes(g) ==
    MergeEach(MergeEach([drawing |-> g.drawing, panic |-> FALSE],
                        SubgraphFrames(g.subgraphs, g.use_ascii), 1, g.use_ascii),
              NodeBoxes(g.nodes), 1, g.use_ascii)

\* The five layers of every edge, drawn on canvases of the size of d.
EdgeLayers(g, d) ==
    [ e \in DOMAIN g.edges |-> draw_arrow([g EXCEPT !.drawing = d], g.edges[e]) ]

\* The five merges in another order: the labels first, under the lines.
LabelsFirst(d, layers, use_ascii) ==
    LET o  == Coord(0, 0)
        d1 == merge_drawings(d, o, [ e \in DOMAIN layers |-> layers[e].label ], use_ascii)
        d2 == merge_drawings(d1, o, [ e \in DOMAIN layers |-> layers[e].line ], use_ascii)
        d3 == merge_drawings(d2, o, [ e \in DOMAIN layers |-> layers[e].corners ], use_ascii)
        d4 == merge_drawings(d3, o, [ e \in DOMAIN layers |-> layers[e].arrow_head ], use_ascii)
    IN  merge_drawings(d4, o, [ e \in DOMAIN layers |-> layers[e].box_start ], use_ascii)

\* The five merges of draw, in the order of the code.
merge_layers(d, layers, use_ascii) ==
    LET o  == Coord(0, 0)
        d1 == merge_drawings(d, o, [ e \in DOMAIN layers |-> layers[e].line ], use_ascii)
        d2 == merge_drawings(d1, o, [ e \in DOMAIN layers |-> layers[e].corners ], use_ascii)
        d3 == merge_drawings(d2, o, [ e \in DOMAIN layers |-> layers[e].arrow_head ], use_ascii)
        d4 == merge_drawings(d3, o, [ e \in DOMAIN layers |-> layers[e].box_start ], use_ascii)
    IN  merge_drawings(d4, o, [ e \in DOMAIN layers |-> layers[e].label ], use_ascii)

\* draw: the final canvas, or a panic.
draw(g) ==
    LET n == draw_nodes(g)
    IN  IF n.panic THEN n
        ELSE IF \E e \in DOMAIN g.edges : ArrowPanics([g EXCEPT !.drawing = n.drawing], g.edges[e])
        THEN [n EXCEPT !.panic = TRUE]
        ELSE MergeEach([drawing |-> merge_layers(n.drawing, EdgeLayers(g, n.drawing),
                                                 g.use_ascii),
                        panic   |-> FALSE],
                       SubgraphLabels(g.subgraphs), 1, g.use_ascii)

(***************************************************************************)
(* The coordinate rulers of show_coords.                                   *)
(***************************************************************************)
\* A number as format!("{}") writes it, one character per cell.
DigitChars == << "0", "1", "2", "3", "4", "5", "6", "7", "8", "9" >>

RECURSIVE Digits(_)
Digits(n) == IF n < 10 THEN << DigitChars[n + 1] >>
             ELSE Digits(n \div 10) \o << DigitChars[(n % 10) + 1] >>

\* format!("{}", n) in one cell.
RECURSIVE Decimal(_)
Decimal(n) == IF n < 10 THEN DigitChars[n + 1]
              ELSE Decimal(n \div 10) \o DigitChars[(n % 10) + 1]

\* format!("{:2}", n): right-aligned in two characters, in one cell.
Pad2(n) == IF n < 10 THEN " " \o Decimal(n) ELSE Decimal(n)

RulerSlots == 100

debug_drawing_wrapper(d) ==
    LET max_x == SizeX(d)
        max_y == SizeY(d)
        debug == set_cells(mk_drawing(max_x + 2, max_y + 1),
                           [ k \in 1 .. (max_x + 1) |-> Write(k + 1, 0, Decimal((k - 1) % 10)) ]
                           \o [ k \in 1 .. (max_y + 1) |-> Write(0, k, Pad2(k - 1)) ])
    IN  [ i \in DOMAIN debug |->
            [ j \in DOMAIN debug[i] |->
                IF i - 3 >= 0 /\ j - 2 >= 0 /\ InDrawing(d, i - 3, j - 2)
                THEN d[i - 2][j - 1]
                ELSE debug[i][j] ] ]

\* The marks of one ruler of debug_coord_wrapper: slot k of the map m at
\* position curr, as long as curr is within the limit.
RECURSIVE RulerMarks(_, _, _, _, _)
RulerMarks(m, limit, k, curr, horizontal) ==
    IF k >= RulerSlots THEN << >>
    ELSE LET w == MapGetOr(m, k, 0)
         IN  IF curr > limit + w THEN << >>
             ELSE << IF horizontal THEN Write(curr, 0, Decimal(k % 10))
                     ELSE Write(0, curr + Div(w, 2), Decimal(k % 10)) >>
                  \o RulerMarks(m, limit, k + 1, curr + w, horizontal)

debug_coord_wrapper(d, cw, rh, use_ascii) ==
    LET max_x == SizeX(d)
        max_y == SizeY(d)
        debug == set_cells(mk_drawing(max_x + 2, max_y + 1),
                           RulerMarks(cw, max_x, 0, 3, TRUE)
                           \o RulerMarks(rh, max_y, 0, 2, FALSE))
    IN  merge_drawings(debug, Coord(1, 1), << d >>, use_ascii)

\* The tail of draw_map: the rulers when asked for, then the string.
finish_drawing(d, cw, rh, cfg) ==
    drawing_to_string(IF cfg.show_coords
                      THEN debug_coord_wrapper(debug_drawing_wrapper(d), cw, rh,
                                               cfg.use_ascii)
                      ELSE d)

(***************************************************************************)
(* Sequence diagrams: sequence.rs.  A line of output is a sequence of      *)
(* cells, one character each.                                              *)
(***************************************************************************)
AutonumberLine ==
    [k |-> "autonumber", lhs |-> << >>, rhs |-> << >>, label |-> NoLabel, name |-> NoName]

\* A line of white space, a line that starts with %%, and a line that is
\* neither of the three kinds that parse knows.
BlankLine ==
    [k |-> "blank", lhs |-> << >>, rhs |-> << >>, label |-> NoLabel, name |-> NoName]

CommentLine ==
    [k |-> "comment", lhs |-> << >>, rhs |-> << >>, label |-> NoLabel, name |-> NoName]

InvalidLine ==
    [k |-> "invalid", lhs |-> << >>, rhs |-> << >>, label |-> NoLabel, name |-> NoName]

\* remove_comments: the lines without the comment lines and the blank lines.
remove_comments(ls) == SelectSeq(ls, LAMBDA l : l.k \notin {"blank", "comment"})

ParticipantLine(id) ==
    [k |-> "participant", lhs |-> << >>, rhs |-> << >>, label |-> NoLabel, name |-> id]

\* participant id as lbl
ParticipantAs(id, lbl) ==
    [k |-> "participant", lhs |-> << >>, rhs |-> << >>, label |-> lbl, name |-> id]

\* A message line; arrow is "solid" for ->> and "dotted" for -->>.
MessageLine(f, t, arrow, lbl) ==
    [k |-> arrow, lhs |-> f, rhs |-> t, label |-> lbl, name |-> NoName]

EmptyDiagram == [participants |-> << >>, messages |-> << >>, autonumber |-> FALSE]

\* The state of parse: the diagram, the hash map from identifier to index
\* that parse keeps beside it, and whether parse has returned an error.
SeqStart ==
    [diagram |-> EmptyDiagram, participants |-> EmptyMap, idx |-> 0, err |-> FALSE,
     err_line |-> 0]

\* The participant that is pushed for id: its index is the length of the list.
NewParticipant(d, id, label) == [id |-> id, label |-> label, index |-> Len(d.participants)]

\* A lookup that never finds the identifier: it appends a participant on
\* every call.
AlwaysInsert(id, st) ==
    [idx |-> Len(st.diagram.participants),
     st  |-> [st EXCEPT !.diagram.participants = Append(@, NewParticipant(st.diagram, id, id)),
                        !.participants = MapPut(@, id, Len(st.diagram.participants))]]

\* get_or_insert_participant on st: the index, and st after it.
get_or_insert_participant(id, st) ==
    IF id \in DOMAIN st.participants
    THEN [idx |-> st.participants[id], st |-> st]
    ELSE [idx |-> Len(st.diagram.participants),
          st  |-> [st EXCEPT !.diagram.participants =
                                 Append(@, NewParticipant(st.diagram, id, id)),
                             !.participants =
                                 MapPut(@, id, Len(st.diagram.participants))]]

\* The message line after both of its ends were looked up.
push_message(line, f, t) ==
    [t.st EXCEPT !.diagram.messages =
        Append(@, [from       |-> f.idx,
                   to         |-> t.idx,
                   label      |-> line.label,
                   arrow_type |-> line.k,
                   number     |-> IF t.st.diagram.autonumber
                                  THEN Len(t.st.diagram.messages) + 1
                                  ELSE 0])]

\* The second lookup of a message line, after the first.
lookup_to(line, f) == push_message(line, f, get_or_insert_participant(line.rhs, f.st))

\* The body of the line loop of parse for the line that enumerate numbers
\* st.idx; an error carries the line number idx + 2.
match_line(line, st) ==
    IF line.k = "blank" THEN st
    ELSE IF line.k = "autonumber"
    THEN [st EXCEPT !.diagram.autonumber = TRUE]
    ELSE IF line.k = "participant"
    THEN IF line.name \in DOMAIN st.participants
         THEN [st EXCEPT !.err = TRUE, !.err_line = st.idx + 2]
         ELSE [st EXCEPT !.diagram.participants =
                             Append(@, NewParticipant(st.diagram, line.name,
                                                      IF line.label = NoLabel THEN line.name
                                                      ELSE line.label)),
                         !.participants = MapPut(@, line.name, Len(st.diagram.participants))]
    ELSE IF line.k \in {"solid", "dotted"}
    THEN lookup_to(line, get_or_insert_participant(line.lhs, st))
    ELSE [st EXCEPT !.err = TRUE, !.err_line = st.idx + 2]

\* One pass of the line loop of parse, and the step of enumerate.
seq_parse_line(line, st) ==
    IF st.err THEN st ELSE [match_line(line, st) EXCEPT !.idx = @ + 1]

\* SequenceDiagram::parse over the lines k.. .
RECURSIVE seq_parse(_, _, _)
seq_parse(ls, k, st) ==
    IF k > Len(ls) THEN st ELSE seq_parse(ls, k + 1, seq_parse_line(ls[k], st))

SeqAscii ==
    [top_left |-> "+", top_right |-> "+", bottom_left |-> "+", bottom_right |-> "+",
     horizontal |-> "-", vertical |-> "|", tee_down |-> "+", tee_right |-> "+",
     tee_left |-> "+", cross |-> "+", arrow_right |-> ">", arrow_left |-> "<",
     solid_line |-> "-", dotted_line |-> ".", self_top_right |-> "+", self_bottom |-> "+"]

SeqUnicode ==
    [top_left |-> Box.dr, top_right |-> Box.dl, bottom_left |-> Box.ur,
     bottom_right |-> Box.ul, horizontal |-> Box.h, vertical |-> Box.v,
     tee_down |-> Box.dh, tee_right |-> Box.vr, tee_left |-> Box.vl, cross |-> Box.vh,
     arrow_right |-> Arrow.right, arrow_left |-> Arrow.left, solid_line |-> Box.h,
     dotted_line |-> "U+2508", self_top_right |-> Box.dl, self_bottom |-> Box.ul]

DefaultSelfMessageWidth == 4
DefaultMessageSpacing == 1
DefaultParticipantSpacing == 5
BoxPaddingLeftRight == 2
MinBoxWidth == 3
BoxBorderWidth == 2
LabelLeftMargin == 2
LabelBufferSpace == 10

\* The width of participant i: its label and the padding, at least the minimum.
ParticipantWidth(d, i) == max(Len(d.participants[i].label) + BoxPaddingLeftRight, MinBoxWidth)

\* current_x of calculate_layout when it reaches participant i.
RECURSIVE LeftOf(_, _, _)
LeftOf(d, participant_spacing, i) ==
    IF i = 1 THEN 0
    ELSE LeftOf(d, participant_spacing, i - 1) + ParticipantWidth(d, i - 1) + BoxBorderWidth
         + participant_spacing

\* A setting that is taken as it is given.
AsGiven(v, default) == v

\* A setting of the configuration, or the default where it is not positive.
OrDefault(v, default) == IF v > 0 THEN v ELSE default

calculate_layout(d, cfg) ==
    LET participant_spacing == OrDefault(cfg.sequence_participant_spacing,
                                         DefaultParticipantSpacing)
        widths  == [ i \in DOMAIN d.participants |-> ParticipantWidth(d, i) ]
        centers == [ i \in DOMAIN d.participants |->
                       LeftOf(d, participant_spacing, i)
                       + Div(widths[i] + BoxBorderWidth, 2) ]
        last    == Len(d.participants)
    IN  [participant_widths  |-> widths,
         participant_centers |-> centers,
         total_width         |-> centers[last] + Div(widths[last] + BoxBorderWidth, 2),
         message_spacing     |-> OrDefault(cfg.sequence_message_spacing,
                                           DefaultMessageSpacing),
         self_message_width  |-> OrDefault(cfg.sequence_self_message_width,
                                           DefaultSelfMessageWidth)]

Repeat(c, n) == [ k \in 1 .. n |-> c ]

rtrim(line) ==
    LET kept == { k \in DOMAIN line : line[k] # Blank }
    IN  SubSeq(line, 1, MaxOf(kept, 0))

ensure_width(line, width) ==
    IF Len(line) < width THEN line \o Repeat(Blank, width - Len(line)) ELSE line

\* line[i] = v for every write, in order; i counts from 0.
Put(line, ws) ==
    [ k \in DOMAIN line |->
        LET hits == { w \in DOMAIN ws : ws[w].i = k - 1 }
        IN  IF hits = {} THEN line[k] ELSE ws[MaxOf(hits, 0)].v ]

\* The three lines of the participant boxes, for participant i.
BoxTop(d, l, ch, i) ==
    << ch.top_left >> \o Repeat(ch.horizontal, l.participant_widths[i]) \o << ch.top_right >>

BoxLabel(d, l, ch, i) ==
    LET width == l.participant_widths[i]
        label == d.participants[i].label
        pad   == max(Div(width - Len(label), 2), 0)
    IN  << ch.vertical >> \o Repeat(Blank, pad) \o label
        \o Repeat(Blank, max(width - (pad + Len(label)), 0)) \o << ch.vertical >>

BoxBottom(d, l, ch, i) ==
    LET width == l.participant_widths[i]
        left  == Div(width, 2)
    IN  << ch.bottom_left >> \o Repeat(ch.horizontal, left) \o << ch.tee_down >>
        \o Repeat(ch.horizontal, width - left - 1) \o << ch.bottom_right >>

\* build_line from participant i on, out being the line so far.
RECURSIVE build_line(_, _, _, _, _, _)
build_line(d, l, ch, which, i, out) ==
    IF i > Len(d.participants) THEN out
    ELSE LET left   == l.participant_centers[i]
                       - Div(l.participant_widths[i] + BoxBorderWidth, 2)
             needed == left - Len(out)
             drawn  == CASE which = "top"   -> BoxTop(d, l, ch, i)
                         [] which = "label" -> BoxLabel(d, l, ch, i)
                         [] OTHER           -> BoxBottom(d, l, ch, i)
         IN  build_line(d, l, ch, which, i + 1,
                        out \o (IF needed > 0 THEN Repeat(Blank, needed) ELSE << >>) \o drawn)

build_lifeline(l, ch) ==
    rtrim(Put(Repeat(Blank, l.total_width + 1),
              [ i \in DOMAIN l.participant_centers |->
                  [i |-> l.participant_centers[i], v |-> ch.vertical] ]))

\* The label of a message with its number in front.
NumberedLabel(m) ==
    IF m.number > 0 THEN Digits(m.number) \o << ".", " " >> \o m.label ELSE m.label

\* The line that carries the label, written from column start on.
LabelLine(base, start, label) ==
    rtrim(Put(ensure_width(base, start + Len(label) + LabelBufferSpace),
              [ k \in DOMAIN label |-> [i |-> start + k - 1, v |-> label[k]] ]))

render_message(m, l, ch) ==
    LET from  == l.participant_centers[m.from + 1]
        to    == l.participant_centers[m.to + 1]
        label == NumberedLabel(m)
        style == IF m.arrow_type = "dotted" THEN ch.dotted_line ELSE ch.solid_line
        line  == build_lifeline(l, ch)
        arrow == IF from < to
                 THEN << [i |-> from, v |-> ch.tee_right] >>
                      \o [ k \in 1 .. (to - from - 1) |-> [i |-> from + k, v |-> style] ]
                      \o << [i |-> to - 1, v |-> ch.arrow_right],
                            [i |-> to, v |-> ch.vertical] >>
                 ELSE << [i |-> to, v |-> ch.vertical],
                         [i |-> to + 1, v |-> ch.arrow_left] >>
                      \o [ k \in 1 .. (from - to - 2) |-> [i |-> to + 1 + k, v |-> style] ]
                      \o << [i |-> from, v |-> ch.tee_left] >>
    IN  (IF Len(label) > 0
         THEN << LabelLine(line, max(min(from, to) + LabelLeftMargin, 0), label) >>
         ELSE << >>)
        \o << rtrim(Put(line, arrow)) >>

render_self_message(m, l, ch) ==
    LET center == l.participant_centers[m.from + 1]
        width  == l.self_message_width
        label  == NumberedLabel(m)
        base   == ensure_width(build_lifeline(l, ch), l.total_width + width + 1)
        l1     == Put(base, << [i |-> center, v |-> ch.tee_right] >>
                            \o [ k \in 1 .. (width - 1) |->
                                   [i |-> center + k, v |-> ch.horizontal] ]
                            \o << [i |-> center + width - 1, v |-> ch.self_top_right] >>)
        l2     == Put(base, << [i |-> center + width - 1, v |-> ch.vertical] >>)
        l3     == Put(base, << [i |-> center, v |-> ch.vertical],
                               [i |-> center + 1, v |-> ch.arrow_left] >>
                            \o [ k \in 1 .. (width - 3) |->
                                   [i |-> center + 1 + k, v |-> ch.horizontal] ]
                            \o << [i |-> center + width - 1, v |-> ch.self_bottom] >>)
    IN  (IF Len(label) > 0
         THEN << LabelLine(base, center + LabelLeftMargin, label) >>
         ELSE << >>)
        \o << rtrim(l1), rtrim(l2), rtrim(l3) >>

\* The loop of render over the messages k.. .
RECURSIVE render_messages(_, _, _, _)
render_messages(d, l, ch, k) ==
    IF k > Len(d.messages) THEN << >>
    ELSE Repeat(build_lifeline(l, ch), l.message_spacing)
         \o (IF d.messages[k].from = d.messages[k].to
             THEN render_self_message(d.messages[k], l, ch)
             ELSE render_message(d.messages[k], l, ch))
         \o render_messages(d, l, ch, k + 1)

\* render: the lines of the output.
seq_render(d, cfg) ==
    LET ch == IF cfg.use_ascii THEN SeqAscii ELSE SeqUnicode
        l  == calculate_layout(d, cfg)
    IN  << build_line(d, l, ch, "top", 1, << >>),
           build_line(d, l, ch, "label", 1, << >>),
           build_line(d, l, ch, "bottom", 1, << >>) >>
        \o render_messages(d, l, ch, 1)
        \o << build_lifeline(l, ch) >>

(***************************************************************************)
(* Inputs.                                                                 *)
(***************************************************************************)
A == << "A" >>

B == << "B", "b" >>

C == << "C" >>

GraphNames == {A, B, C}

Labels == {NoLabel}

\* The label of an edge of the runs with edge labels.
Caption == << "y", "e", "s" >>

\* The k-th node of a chain N0 --> N1 --> ...
ChainName(k) == << "N" >> \o Digits(k)

\* Edge lines of the longest chain: one more node than the slot table can
\* take, plus the slack.
MaxChainLines == (LevelSlots \div LevelStep) - 1 + ChainSlack

Paddings == {0, 1}

\* The configurations of the runs on graphs; the rulers are asked for with
\* the larger padding only.
Configs ==
    { c \in [dirn : {"LR", "TD"}, use_ascii : BOOLEAN, padding_x : Paddings,
             padding_y : Paddings, box_border_padding : {0}, show_coords : BOOLEAN] :
        /\ c.padding_x = c.padding_y
        /\ c.show_coords => c.padding_x = 1 }

DefaultConfig ==
    [dirn |-> "LR", use_ascii |-> FALSE, padding_x |-> 5, padding_y |-> 5,
     box_border_padding |-> 1, show_coords |-> FALSE]

\* Config::default_config, with the fields of the struct.
default_config ==
    [use_ascii |-> FALSE, show_coords |-> FALSE, verbose |-> FALSE,
     box_border_padding |-> 1, padding_between_x |-> 5, padding_between_y |-> 5,
     graph_direction |-> "LR", style_type |-> "cli",
     sequence_participant_spacing |-> DefaultParticipantSpacing,
     sequence_message_spacing |-> DefaultMessageSpacing,
     sequence_self_message_width |-> DefaultSelfMessageWidth]

\* The configurations of the runs on sequence diagrams: the spacings are
\* the defaults, only the character set varies.
SeqConfigs == { [default_config EXCEPT !.use_ascii = a] : a \in BOOLEAN }

\* The label of a message.
Hi == << "m" >>

\* The label that a participant line gives with "as".
Alias == << "Z" >>

\* The name of every subgraph.
S == << "S" >>

\* The subgraph lines, and the end lines, among the lines read so far.
Opened(ls) == Len(SelectSeq(ls, LAMBDA l : l.k = "subgraph"))

Closed(ls) == Len(SelectSeq(ls, LAMBDA l : l.k = "end"))

\* The configurations of the runs with subgraphs.
SubConfigs == { c \in Configs : c.padding_x = 1 /\ ~c.use_ascii /\ ~c.show_coords }

\* The lines that may follow the lines read so far.
Alphabet(m, ls) ==
    CASE m = "graph" ->
           { EdgeLine(<< l >>, << r >>, lbl) : l \in GraphNames, r \in GraphNames, lbl \in Labels }
      [] m = "depth" ->
           { EdgeLine(<< ChainName(Len(ls)) >>, << ChainName(Len(ls) + 1) >>, NoLabel) }
      [] m = "sub" ->
           (IF Opened(ls) < MaxSubgraphs THEN { SubgraphLine(S) } ELSE {})
           \cup (IF Opened(ls) > Closed(ls) THEN { EndLine } ELSE {})
           \cup { NodeLine(A), NodeLine(C), EdgeLine(<< A >>, << C >>, NoLabel) }
      [] m = "place" ->
           (IF Opened(ls) < 1 THEN { SubgraphLine(S) } ELSE {})
           \cup (IF Opened(ls) > Closed(ls) THEN { EndLine } ELSE {})
           \cup { NodeLine(n) : n \in GraphNames }
           \cup { EdgeLine(<< l >>, << r >>, NoLabel) : l \in GraphNames, r \in GraphNames }
      [] m = "label" ->
           (IF Opened(ls) < 1 THEN { SubgraphLine(S) } ELSE {})
           \cup { EdgeLine(<< l >>, << r >>, lbl) : l \in GraphNames, r \in GraphNames,
                                                lbl \in {NoLabel, Caption} }
      [] m = "nest" ->
           { SubgraphLine(S), EndLine, NodeLine(A), NodeLine(C),
             EdgeLine(<< A >>, << C >>, NoLabel) }
      [] m = "space" ->
           (IF Opened(ls) = Closed(ls) /\ Opened(ls) < MaxSubgraphs
            THEN { SubgraphLine(S) } ELSE {})
           \cup (IF Opened(ls) > Closed(ls) THEN { EndLine } ELSE {})
           \cup { NodeLine(A), EdgeLine(<< A >>, << B >>, NoLabel),
                  EdgeLine(<< A >>, << C >>, NoLabel) }
      [] m = "layout" ->
           { ParticipantLine(A), ParticipantLine(B), ParticipantLine(C),
             MessageLine(A, A, "solid", NoLabel), MessageLine(B, B, "dotted", Hi),
             MessageLine(A, B, "solid", Hi) }
      [] m = "route" ->
           { EdgeLine(<< l >>, << r >>, NoLabel) : l \in GraphNames, r \in GraphNames }
      [] m = "sequence" ->
           { AutonumberLine, ParticipantLine(A), ParticipantLine(B), ParticipantAs(B, Alias),
             BlankLine, CommentLine, InvalidLine }
           \cup { MessageLine(f, t, a, lbl) : f \in {A, B}, t \in {A, B},
                                              a \in {"solid", "dotted"},
                                              lbl \in {NoLabel, Hi} }
      [] OTHER -> {}

LineBound(m) ==
    CASE m = "depth"    -> MaxChainLines
      [] m = "sub"      -> MaxSubLines
      [] m = "sequence" -> MaxSeqLines
      [] m = "place"    -> MaxPlaceLines
      [] m = "route"    -> MaxRouteLines
      [] m = "label"    -> MaxLabelLines
      [] m = "nest"     -> MaxNestLines
      [] m = "space"    -> MaxSpaceLines
      [] m = "layout"   -> MaxLayoutLines
      [] OTHER          -> MaxLines

(***************************************************************************)
(* The graph pipeline as a state machine.                                  *)
(***************************************************************************)
NoOutput == [kind |-> "none", rows |-> << >>]

InitCommon ==
    /\ lines = << >>
    /\ data = << >>
    /\ tsubgraphs = << >>
    /\ subgraph_stack = << >>
    /\ nodes = << >>
    /\ edges = << >>
    /\ grid = EmptyMap
    /\ column_width = EmptyMap
    /\ row_height = EmptyMap
    /\ subgraphs = << >>
    /\ offset = Coord(0, 0)
    /\ drawing = << >>
    /\ hpl = EmptyMap
    /\ idx = 0
    /\ output = NoOutput
    /\ jout = << >>
    /\ seqd = SeqStart
    /\ aux = << >>

\* diagram_factory: the input is a graph or a sequence diagram.
Init ==
    /\ \/ mode = "graph" /\ config \in Configs
       \/ mode = "sequence" /\ config \in SeqConfigs
    /\ pc = "parse"
    /\ jin = << >>
    /\ InitCommon

InitSub ==
    /\ mode = "sub"
    /\ config \in SubConfigs
    /\ pc = "parse"
    /\ jin = << >>
    /\ InitCommon

InitDepth ==
    /\ mode = "depth"
    /\ config = DefaultConfig
    /\ pc = "parse"
    /\ jin = << >>
    /\ InitCommon

\* One pass of the body loop of mermaid_to_graph_properties.
ParseLine ==
    /\ pc = "parse"
    /\ mode # "sequence"
    /\ Len(lines) < LineBound(mode)
    /\ \E line \in Alphabet(mode, lines) :
         \E p \in { parse_line(line, [data |-> data, subgraphs |-> tsubgraphs,
                                      stack |-> subgraph_stack]) } :
             /\ lines' = Append(lines, line)
             /\ data' = p.data
             /\ tsubgraphs' = p.subgraphs
             /\ subgraph_stack' = p.stack
    /\ UNCHANGED << pc, mode, config, nodes, edges, grid, column_width, row_height,
                    subgraphs, offset, drawing, hpl, idx, output, jin, jout, seqd, aux >>

\* draw_map up to create_mapping: mk_graph and set_subgraphs.
MkGraph ==
    /\ pc = "parse"
    /\ mode # "sequence"
    /\ \E g \in { mk_graph(data) } :
           /\ nodes' = g.nodes
           /\ edges' = g.edges
           /\ subgraphs' = set_subgraphs(tsubgraphs, g.nodes)
    /\ drawing' = mk_drawing(0, 0)
    /\ pc' = "roots"
    /\ UNCHANGED << mode, config, lines, data, tsubgraphs, subgraph_stack, grid,
                    column_width, row_height, offset, hpl, idx, output, jin, jout,
                    seqd, aux >>

\* create_mapping: root detection and the two root loops.
PlaceRoots ==
    /\ pc = "roots"
    /\ \E st \in { place_roots(nodes, edges, subgraphs, config.dirn) } :
           /\ nodes' = st.nodes
           /\ grid' = st.grid
           /\ hpl' = st.hpl
    /\ pc' = "children"
    /\ idx' = 1
    /\ UNCHANGED << mode, config, lines, data, tsubgraphs, subgraph_stack, edges,
                    column_width, row_height, subgraphs, offset, drawing, output,
                    jin, jout, seqd, aux >>

\* The index that the children loop would read in the slot table.
ChildLevelOf(i) == child_level(nodes[i].grid_coord, config.dirn)

\* create_mapping: one iteration of the children loop.  unwrap() of a missing
\* coordinate and an index outside the slot table both panic.
PlaceChildren ==
    /\ pc = "children"
    /\ idx <= Len(nodes)
    /\ IF ~nodes[idx].grid_coord.some \/ ChildLevelOf(idx) >= LevelSlots
       THEN /\ pc' = "panic"
            /\ UNCHANGED << nodes, grid, hpl, idx >>
       ELSE \E st \in { place_children(idx, edges, config.dirn,
                                        [nodes |-> nodes, grid |-> grid, hpl |-> hpl]) } :
                /\ nodes' = st.nodes
                /\ grid' = st.grid
                /\ hpl' = st.hpl
                /\ idx' = idx + 1
                /\ pc' = pc
    /\ UNCHANGED << mode, config, lines, data, tsubgraphs, subgraph_stack, edges,
                    column_width, row_height, subgraphs, offset, drawing, output,
                    jin, jout, seqd, aux >>

\* create_mapping: the loop of set_column_width, once the children loop is over.
SetColumnWidths ==
    /\ pc = "children"
    /\ idx > Len(nodes)
    /\ \E w \in { set_column_widths(nodes, edges, subgraphs, config, 1,
                                     [column_width |-> EmptyMap, row_height |-> EmptyMap]) } :
           /\ column_width' = w.column_width
           /\ row_height' = w.row_height
    /\ pc' = "route"
    /\ idx' = 1
    /\ UNCHANGED << mode, config, lines, data, tsubgraphs, subgraph_stack, nodes,
                    edges, grid, subgraphs, offset, drawing, hpl, output, jin, jout,
                    seqd, aux >>

\* create_mapping: one pass of the edge loop.
RouteEdge ==
    /\ pc = "route"
    /\ idx <= Len(edges)
    /\ \E r \in { route_edge(grid, nodes, config, idx,
                               [edges |-> edges, column_width |-> column_width,
                                row_height |-> row_height]) } :
           /\ edges' = r.edges
           /\ column_width' = r.column_width
           /\ row_height' = r.row_height
    /\ idx' = idx + 1
    /\ UNCHANGED << pc, mode, config, lines, data, tsubgraphs, subgraph_stack, nodes,
                    grid, subgraphs, offset, drawing, hpl, output, jin, jout, seqd,
                    aux >>

\* create_mapping: drawing coordinates and boxes of the nodes.
DrawBoxes ==
    /\ pc = "route"
    /\ idx > Len(edges)
    /\ nodes' = draw_boxes(nodes, column_width, row_height, config)
    /\ pc' = "size"
    /\ UNCHANGED << mode, config, lines, data, tsubgraphs, subgraph_stack, edges,
                    grid, column_width, row_height, subgraphs, offset, drawing, hpl,
                    idx, output, jin, jout, seqd, aux >>

\* set_drawing_size_to_grid_constraints: the hash maps are summed in whatever
\* order they iterate.
SetDrawingSize ==
    /\ pc = "size"
    /\ \E order \in HashOrders :
         /\ drawing' = set_drawing_size_to_grid_constraints(drawing, column_width,
                                                            row_height, order)
         /\ aux' = << order >>
    /\ pc' = "bbox"
    /\ UNCHANGED << mode, config, lines, data, tsubgraphs, subgraph_stack, nodes,
                    edges, grid, column_width, row_height, subgraphs, offset, hpl,
                    idx, output, jin, jout, seqd >>

\* calculate_subgraph_bounding_boxes, ensure_subgraph_spacing included.
BoundingBoxes ==
    /\ pc = "bbox"
    /\ subgraphs' = calculate_subgraph_bounding_boxes(subgraphs, nodes)
    /\ pc' = "offset"
    /\ UNCHANGED << mode, config, lines, data, tsubgraphs, subgraph_stack, nodes,
                    edges, grid, column_width, row_height, offset, drawing, hpl, idx,
                    output, jin, jout, seqd, aux >>

OffsetDrawing ==
    /\ pc = "offset"
    /\ \E r \in { offset_drawing_for_subgraphs([subgraphs |-> subgraphs, nodes |-> nodes,
                                                 offset |-> offset]) } :
           /\ subgraphs' = r.subgraphs
           /\ nodes' = r.nodes
           /\ offset' = r.offset
    /\ pc' = "draw"
    /\ UNCHANGED << mode, config, lines, data, tsubgraphs, subgraph_stack, edges,
                    grid, column_width, row_height, drawing, hpl, idx, output, jin,
                    jout, seqd, aux >>

\* The graph as draw reads it.
Graph ==
    [nodes |-> nodes, edges |-> edges, subgraphs |-> subgraphs,
     column_width |-> column_width, row_height |-> row_height, offset |-> offset,
     use_ascii |-> config.use_ascii, drawing |-> drawing]

Draw ==
    /\ pc = "draw"
    /\ \E r \in { draw(Graph) } :
           IF r.panic
           THEN /\ pc' = "panic"
                /\ UNCHANGED drawing
           ELSE /\ pc' = "string"
                /\ drawing' = r.drawing
    /\ UNCHANGED << mode, config, lines, data, tsubgraphs, subgraph_stack, nodes,
                    edges, grid, column_width, row_height, subgraphs, offset, hpl,
                    idx, output, jin, jout, seqd, aux >>

\* draw_map after draw: the rulers of show_coords and drawing_to_string.
DrawingToString ==
    /\ pc = "string"
    /\ output' = [kind |-> "ok",
                  rows |-> finish_drawing(drawing, column_width, row_height, config)]
    /\ pc' = "done"
    /\ UNCHANGED << mode, config, lines, data, tsubgraphs, subgraph_stack, nodes,
                    edges, grid, column_width, row_height, subgraphs, offset,
                    drawing, hpl, idx, jin, jout, seqd, aux >>

\* One more line of the text: remove_comments drops it, or the line loop of
\* SequenceDiagram::parse takes it.
SeqParseLine ==
    /\ pc = "parse"
    /\ mode \in {"sequence", "layout"}
    /\ ~seqd.err
    /\ Len(lines) < LineBound(mode)
    /\ \E line \in Alphabet(mode, lines) :
         /\ lines' = Append(lines, line)
         /\ seqd' = seq_parse(remove_comments(<< line >>), 1, seqd)
    /\ UNCHANGED << pc, mode, config, data, tsubgraphs, subgraph_stack, nodes, edges,
                    grid, column_width, row_height, subgraphs, offset, drawing, hpl,
                    idx, output, jin, jout, aux >>

\* The end of SequenceDiagram::parse: a duplicate participant, or no
\* participant at all, is an error.
SeqParsed ==
    /\ pc = "parse"
    /\ mode \in {"sequence", "layout"}
    /\ IF seqd.err \/ Len(seqd.diagram.participants) = 0
       THEN /\ pc' = "done"
            /\ output' = [kind |-> "err", rows |-> << >>]
       ELSE /\ pc' = "render"
            /\ UNCHANGED output
    /\ UNCHANGED << mode, config, lines, data, tsubgraphs, subgraph_stack, nodes,
                    edges, grid, column_width, row_height, subgraphs, offset,
                    drawing, hpl, idx, jin, jout, seqd, aux >>

\* SequenceDiagram::render.
SeqRender ==
    /\ pc = "render"
    /\ output' = [kind |-> "ok", rows |-> seq_render(seqd.diagram, config)]
    /\ pc' = "done"
    /\ UNCHANGED << mode, config, lines, data, tsubgraphs, subgraph_stack, nodes,
                    edges, grid, column_width, row_height, subgraphs, offset,
                    drawing, hpl, idx, jin, jout, seqd, aux >>

NextSequence ==
    \/ SeqParseLine
    \/ SeqParsed
    \/ SeqRender

NextGraph ==
    \/ ParseLine
    \/ MkGraph
    \/ PlaceRoots
    \/ PlaceChildren
    \/ SetColumnWidths
    \/ RouteEdge
    \/ DrawBoxes
    \/ SetDrawingSize
    \/ BoundingBoxes
    \/ OffsetDrawing
    \/ Draw
    \/ DrawingToString

Next ==
    \/ NextGraph
    \/ NextSequence

Spec == Init /\ [][Next]_vars

SpecDepth == InitDepth /\ [][NextGraph]_vars

SpecSub == InitSub /\ [][NextGraph]_vars

\* The configurations of the runs with edge labels: both directions, with
\* and without padding inside the boxes.
LabelConfigs ==
    { [c EXCEPT !.box_border_padding = p] :
        c \in { q \in Configs : q.padding_x = 1 /\ ~q.use_ascii /\ ~q.show_coords },
        p \in {0, 1} }

\* The runs of the whole graph pipeline on graphs with labelled edges.
InitLabel ==
    /\ mode = "label"
    /\ config \in LabelConfigs
    /\ pc = "parse"
    /\ jin = << >>
    /\ InitCommon

SpecLabel == InitLabel /\ [][NextGraph]_vars

\* The runs of the parser alone, on texts in which an `end` line may stand
\* anywhere, also where no subgraph is open.
InitNest ==
    /\ mode = "nest"
    /\ config = DefaultConfig
    /\ pc = "parse"
    /\ jin = << >>
    /\ InitCommon

NextNest == ParseLine

SpecNest == InitNest /\ [][NextNest]_vars

\* The runs that stop after ensure_subgraph_spacing: graphs of a root A with
\* the children B and C, with up to two subgraphs side by side.
InitSpace ==
    /\ mode = "space"
    /\ config \in SubConfigs
    /\ pc = "parse"
    /\ jin = << >>
    /\ InitCommon

NextSpace ==
    \/ ParseLine
    \/ MkGraph
    \/ PlaceRoots
    \/ PlaceChildren
    \/ SetColumnWidths
    \/ RouteEdge
    \/ DrawBoxes
    \/ SetDrawingSize
    \/ BoundingBoxes

SpecSpace == InitSpace /\ [][NextSpace]_vars

\* The runs that stop after placement: graphs of node lines and edge lines
\* over three names, with at most one subgraph, in both directions.
InitPlace ==
    /\ mode = "place"
    /\ config \in { c \in Configs : c.padding_x = 1 /\ ~c.use_ascii /\ ~c.show_coords }
    /\ pc = "parse"
    /\ jin = << >>
    /\ InitCommon

NextPlace ==
    \/ ParseLine
    \/ MkGraph
    \/ PlaceRoots
    \/ PlaceChildren

SpecPlace == InitPlace /\ [][NextPlace]_vars

\* The runs that stop after the edge loop: graphs of edge lines over three
\* names, self-edges and backward edges among them, in both directions.
InitRoute ==
    /\ mode = "route"
    /\ config \in { c \in Configs : c.padding_x = 1 /\ ~c.use_ascii /\ ~c.show_coords }
    /\ pc = "parse"
    /\ jin = << >>
    /\ InitCommon

NextRoute ==
    \/ ParseLine
    \/ MkGraph
    \/ PlaceRoots
    \/ PlaceChildren
    \/ SetColumnWidths
    \/ RouteEdge

SpecRoute == InitRoute /\ [][NextRoute]_vars

(***************************************************************************)
(* The pipeline as one function of the input, for comparing runs.          *)
(***************************************************************************)
\* The body loop of mermaid_to_graph_properties over the lines k.. .
RECURSIVE parse_lines(_, _, _)
parse_lines(ls, k, p) ==
    Strict(p, IF k > Len(ls) THEN p ELSE parse_lines(ls, k + 1, parse_line(ls[k], p)))

\* The children loop of create_mapping from node i on; st is [nodes, grid,
\* hpl, panic].
RECURSIVE place_all_children(_, _, _, _)
place_all_children(i, es, dirn, st) ==
    Strict(st,
           IF i > Len(st.nodes) \/ st.panic THEN st
           ELSE IF \/ ~st.nodes[i].grid_coord.some
                   \/ child_level(st.nodes[i].grid_coord, dirn) >= LevelSlots
           THEN [st EXCEPT !.panic = TRUE]
           ELSE LET r == place_children(i, es, dirn, [nodes |-> st.nodes, grid |-> st.grid,
                                                     hpl |-> st.hpl])
                IN  place_all_children(i + 1, es, dirn,
                        [nodes |-> r.nodes, grid |-> r.grid, hpl |-> r.hpl, panic |-> FALSE]))

\* create_mapping, with the hash maps summed in the given order.
create_mapping(ns, es, sgs, cfg, order) ==
    LET pr == place_roots(ns, es, sgs, cfg.dirn)
        pl == place_all_children(1, es, cfg.dirn,
                  [nodes |-> pr.nodes, grid |-> pr.grid, hpl |-> pr.hpl, panic |-> FALSE])
        w  == set_column_widths(pl.nodes, es, sgs, cfg, 1,
                  [column_width |-> EmptyMap, row_height |-> EmptyMap])
        r  == route_edges(pl.grid, pl.nodes, cfg, 1,
                  [edges |-> es, column_width |-> w.column_width,
                   row_height |-> w.row_height])
        bx == draw_boxes(pl.nodes, r.column_width, r.row_height, cfg)
        bb == calculate_subgraph_bounding_boxes(sgs, bx)
        o  == offset_drawing_for_subgraphs([subgraphs |-> bb, nodes |-> bx,
                                            offset |-> Coord(0, 0)])
    IN  IF pl.panic
        THEN [panic |-> TRUE, nodes |-> pl.nodes, edges |-> es, subgraphs |-> sgs,
              grid |-> pl.grid, column_width |-> EmptyMap, row_height |-> EmptyMap,
              offset |-> Coord(0, 0), use_ascii |-> cfg.use_ascii,
              drawing |-> mk_drawing(0, 0)]
        ELSE [panic |-> FALSE, nodes |-> o.nodes, edges |-> r.edges,
              subgraphs |-> o.subgraphs, grid |-> pl.grid,
              column_width |-> r.column_width, row_height |-> r.row_height,
              offset |-> o.offset, use_ascii |-> cfg.use_ascii,
              drawing |-> set_drawing_size_to_grid_constraints(
                              mk_drawing(0, 0), r.column_width, r.row_height, order)]

\* draw_map for the lines of a graph: the output, or a panic, and the
\* layout it was drawn from.
draw_map(ls, cfg, order) ==
    LET p  == parse_lines(ls, 1, [data |-> << >>, subgraphs |-> << >>, stack |-> << >>])
        g0 == mk_graph(p.data)
        g  == create_mapping(g0.nodes, g0.edges, set_subgraphs(p.subgraphs, g0.nodes),
                             cfg, order)
        d  == draw(g)
    IN  [kind  |-> IF g.panic \/ d.panic THEN "panic" ELSE "ok",
         rows  |-> IF g.panic \/ d.panic THEN << >>
                   ELSE finish_drawing(d.drawing, g.column_width, g.row_height, cfg),
         nodes |-> g.nodes,
         edges |-> g.edges]

\* render_diagram: the result for the lines of a diagram of kind m.
render_diagram(m, ls, cfg, order) ==
    IF m = "sequence"
    THEN LET st == seq_parse(remove_comments(ls), 1, SeqStart)
         IN  IF st.err \/ Len(st.diagram.participants) = 0
             THEN [kind |-> "err", rows |-> << >>]
             ELSE [kind |-> "ok", rows |-> seq_render(st.diagram, cfg)]
    ELSE LET r == draw_map(ls, cfg, order)
         IN  [kind |-> r.kind, rows |-> r.rows]

(***************************************************************************)
(* merge_junctions on its own: every triple of junction glyphs.            *)
(***************************************************************************)
JunctionGlyphs ==
    {Box.h, Box.v, Box.dr, Box.dl, Box.ur, Box.ul, Box.vr, Box.vl, Box.dh, Box.uh,
     Box.vh, Box.sl, Box.su, Box.sr, Box.sd}

InitJunction ==
    /\ mode = "junction"
    /\ config = DefaultConfig
    /\ pc = "junction"
    /\ InitCommon
    /\ jin \in [1 .. 3 -> JunctionGlyphs]

\* merge_junctions applied to the pairs of a triple (a, b, c), in both
\* orders and in both groupings.
MergeJunctions ==
    /\ pc = "junction"
    /\ jout' = [ab   |-> merge_junctions(jin[1], jin[2]),
                ba   |-> merge_junctions(jin[2], jin[1]),
                ab_c |-> merge_junctions(merge_junctions(jin[1], jin[2]), jin[3]),
                a_bc |-> merge_junctions(jin[1], merge_junctions(jin[2], jin[3]))]
    /\ pc' = "merged"
    /\ UNCHANGED << mode, config, lines, data, tsubgraphs, subgraph_stack, nodes,
                    edges, grid, column_width, row_height, subgraphs, offset,
                    drawing, hpl, idx, output, jin, seqd, aux >>

NextJunction == MergeJunctions

SpecJunction == InitJunction /\ [][NextJunction]_vars

(***************************************************************************)
(* Config::validate and Config::new_cli_config on their own.               *)
(***************************************************************************)
\* i32::to_string.
to_string(n) == IF n < 0 THEN "-" \o Decimal(0 - n) ELSE Decimal(n)

\* impl Display for ConfigError.
Display(e) == "invalid config: " \o e.field \o " = " \o e.value \o " (" \o e.message \o ")"

\* A validation that accepts every configuration.
AcceptAll(c) == [kind |-> "ok"]

\* Config::validate: Ok, or the error of the first check that fails.
validate(c) ==
    IF c.box_border_padding < 0
    THEN [kind |-> "err",
          error |-> Display([field |-> "box_border_padding",
                             value |-> to_string(c.box_border_padding),
                             message |-> "must be non-negative"])]
    ELSE IF c.padding_between_x < 0
    THEN [kind |-> "err",
          error |-> Display([field |-> "padding_between_x",
                             value |-> to_string(c.padding_between_x),
                             message |-> "must be non-negative"])]
    ELSE IF c.padding_between_y < 0
    THEN [kind |-> "err",
          error |-> Display([field |-> "padding_between_y",
                             value |-> to_string(c.padding_between_y),
                             message |-> "must be non-negative"])]
    ELSE IF c.graph_direction # "LR" /\ c.graph_direction # "TD"
    THEN [kind |-> "err",
          error |-> Display([field |-> "graph_direction",
                             value |-> c.graph_direction,
                             message |-> "must be \"LR\" or \"TD\""])]
    ELSE IF c.style_type # "cli" /\ c.style_type # "html"
    THEN [kind |-> "err",
          error |-> Display([field |-> "style_type",
                             value |-> c.style_type,
                             message |-> "must be \"cli\" or \"html\""])]
    ELSE IF c.sequence_participant_spacing < 0
    THEN [kind |-> "err",
          error |-> Display([field |-> "sequence_participant_spacing",
                             value |-> to_string(c.sequence_participant_spacing),
                             message |-> "must be non-negative"])]
    ELSE IF c.sequence_message_spacing < 0
    THEN [kind |-> "err",
          error |-> Display([field |-> "sequence_message_spacing",
                             value |-> to_string(c.sequence_message_spacing),
                             message |-> "must be non-negative"])]
    ELSE IF c.sequence_self_message_width < 2
    THEN [kind |-> "err",
          error |-> Display([field |-> "sequence_self_message_width",
                             value |-> to_string(c.sequence_self_message_width),
                             message |-> "must be at least 2"])]
    ELSE [kind |-> "ok"]

\* The Config that new_cli_config builds from its arguments, and the result
\* of validating it.
cli_config(a) ==
    [default_config EXCEPT !.use_ascii = a.use_ascii, !.show_coords = a.show_coords,
                           !.verbose = a.verbose,
                           !.box_border_padding = a.box_border_padding,
                           !.padding_between_x = a.padding_between_x,
                           !.padding_between_y = a.padding_between_y,
                           !.graph_direction = a.graph_direction,
                           !.style_type = "cli"]

validated(c, r) == IF r.kind = "ok" THEN [kind |-> "ok", config |-> c] ELSE r

new_cli_config(a) == validated(cli_config(a), validate(cli_config(a)))

\* The values of the fields of the configurations that are validated: on
\* both sides of every bound, and a name beside the accepted ones.
Spacings == {-1, 0}

Widths == {1, 2}

Directions == {"LR", "TD", "RL"}

Styles == {"cli", "html", "svg"}

CandidateConfigs ==
    [use_ascii : {FALSE}, show_coords : {FALSE}, verbose : {FALSE},
     box_border_padding : Spacings, padding_between_x : Spacings,
     padding_between_y : Spacings, graph_direction : Directions, style_type : Styles,
     sequence_participant_spacing : Spacings, sequence_message_spacing : Spacings,
     sequence_self_message_width : Widths]

InitConfig ==
    /\ mode = "config"
    /\ config \in CandidateConfigs
    /\ pc = "config"
    /\ InitCommon
    /\ jin = << >>

\* config.validate()
Validate ==
    /\ pc = "config"
    /\ output' = validate(config)
    /\ pc' = "validated"
    /\ UNCHANGED << mode, config, lines, data, tsubgraphs, subgraph_stack, nodes,
                    edges, grid, column_width, row_height, subgraphs, offset,
                    drawing, hpl, idx, jin, jout, seqd, aux >>

\* Config::new_cli_config called with the fields of the configuration that
\* it takes as arguments.
NewCliConfig ==
    /\ pc = "config"
    /\ output' = new_cli_config(config)
    /\ pc' = "constructed"
    /\ UNCHANGED << mode, config, lines, data, tsubgraphs, subgraph_stack, nodes,
                    edges, grid, column_width, row_height, subgraphs, offset,
                    drawing, hpl, idx, jin, jout, seqd, aux >>

NextConfig == Validate \/ NewCliConfig

SpecConfig == InitConfig /\ [][NextConfig]_vars

(***************************************************************************)
(* The canvas operations on their own, in any order.                       *)
(***************************************************************************)
\* The mark that the canvas runs write.
Mark == "x"

\* The drawings that the canvas runs merge into the canvas: a blank canvas
\* with one mark.
Layers ==
    { set_cell(mk_drawing(x, y), mx, my, Mark) :
        x \in 0 .. 1, y \in 0 .. 1, mx \in 0 .. 1, my \in 0 .. 1 }

InitCanvas ==
    /\ mode = "canvas"
    /\ config \in SeqConfigs
    /\ pc = "canvas"
    /\ InitCommon
    /\ jin = << >>

\* drawing = mk_drawing(x, y)
MkDrawing ==
    /\ pc = "canvas"
    /\ \E x \in 0 .. MaxCanvasX, y \in 0 .. MaxCanvasY : drawing' = mk_drawing(x, y)
    /\ UNCHANGED << pc, mode, config, lines, data, tsubgraphs, subgraph_stack, nodes,
                    edges, grid, column_width, row_height, subgraphs, offset,
                    hpl, idx, output, jin, jout, seqd, aux >>

\* increase_size(&mut drawing, x, y)
IncreaseSize ==
    /\ pc = "canvas"
    /\ \E x \in 0 .. MaxCanvasX, y \in 0 .. MaxCanvasY :
          drawing' = increase_size(drawing, x, y)
    /\ UNCHANGED << pc, mode, config, lines, data, tsubgraphs, subgraph_stack, nodes,
                    edges, grid, column_width, row_height, subgraphs, offset,
                    hpl, idx, output, jin, jout, seqd, aux >>

\* set_cell(&mut drawing, x, y, value), also with a negative coordinate.
SetCell ==
    /\ pc = "canvas"
    /\ \E x \in -1 .. MaxCanvasX, y \in -1 .. MaxCanvasY :
          drawing' = set_cell(drawing, x, y, Mark)
    /\ UNCHANGED << pc, mode, config, lines, data, tsubgraphs, subgraph_stack, nodes,
                    edges, grid, column_width, row_height, subgraphs, offset,
                    hpl, idx, output, jin, jout, seqd, aux >>

\* drawing = merge_drawings(&drawing, offset, &[layer], use_ascii), for the
\* layers that leave the canvas within the bounds.
MergeDrawings ==
    /\ pc = "canvas"
    /\ \E layer \in Layers, ox \in 0 .. 1, oy \in 0 .. 1 :
          /\ SizeX(layer) + ox <= MaxCanvasX
          /\ SizeY(layer) + oy <= MaxCanvasY
          /\ drawing' = merge_drawings(drawing, Coord(ox, oy), << layer >>, config.use_ascii)
    /\ UNCHANGED << pc, mode, config, lines, data, tsubgraphs, subgraph_stack, nodes,
                    edges, grid, column_width, row_height, subgraphs, offset,
                    hpl, idx, output, jin, jout, seqd, aux >>

\* drawing_to_string(&drawing) ends the run; an empty drawing has no cell
\* (0, 0).
CanvasToString ==
    /\ pc = "canvas"
    /\ Len(drawing) > 0
    /\ output' = [kind |-> "ok", rows |-> drawing_to_string(drawing)]
    /\ pc' = "printed"
    /\ UNCHANGED << mode, config, lines, data, tsubgraphs, subgraph_stack, nodes,
                    edges, grid, column_width, row_height, subgraphs, offset,
                    drawing, hpl, idx, jin, jout, seqd, aux >>

NextCanvas == MkDrawing \/ IncreaseSize \/ SetCell \/ MergeDrawings \/ CanvasToString

SpecCanvas == InitCanvas /\ [][NextCanvas]_vars

(***************************************************************************)
(* merge_path on its own: every path of unit steps from one cell.          *)
(***************************************************************************)
\* The cell that the first k moves of ms lead to from the cell c.
RECURSIVE After(_, _, _)
After(c, ms, k) ==
    IF k = 0 THEN c
    ELSE Coord(After(c, ms, k - 1).x + directions[ms[k]].x,
               After(c, ms, k - 1).y + directions[ms[k]].y)

\* The path of the moves ms from the cell c.
PathOf(c, ms) == [ k \in 1 .. (Len(ms) + 1) |-> After(c, ms, k - 1) ]

UnitStepPaths ==
    { PathOf(Coord(MaxPathSteps, MaxPathSteps), ms) :
        ms \in UNION { [1 .. n -> 1 .. 4] : n \in 0 .. MaxPathSteps } }

InitMerge ==
    /\ mode = "merge"
    /\ config = DefaultConfig
    /\ pc = "path"
    /\ InitCommon
    /\ jin \in UnitStepPaths

\* merge_path(path), and merge_path of its result.
MergePath ==
    /\ pc = "path"
    /\ jout' = [once |-> merge_path(jin), twice |-> merge_path(merge_path(jin))]
    /\ pc' = "merged"
    /\ UNCHANGED << mode, config, lines, data, tsubgraphs, subgraph_stack, nodes,
                    edges, grid, column_width, row_height, subgraphs, offset,
                    drawing, hpl, idx, output, jin, seqd, aux >>

NextMerge == MergePath

SpecMerge == InitMerge /\ [][NextMerge]_vars

\* The settings of the sequence spacings that are tried, valid or not.
ParticipantSpacings == {-1, 0, 1, 2}

SelfMessageWidths == {1, 2, 3, 4}

\* The configurations of the runs on sequence diagrams with configured
\* spacings: those that validate accepts.
LayoutConfigs ==
    { c \in { [default_config EXCEPT !.sequence_participant_spacing = sp,
                                     !.sequence_self_message_width = w] :
                 sp \in ParticipantSpacings, w \in SelfMessageWidths } :
        validate(c).kind = "ok" }

InitLayout ==
    /\ mode = "layout"
    /\ config \in LayoutConfigs
    /\ pc = "parse"
    /\ jin = << >>
    /\ InitCommon

SpecLayout == InitLayout /\ [][NextSequence]_vars

(***************************************************************************)
(* Properties.                                                             *)
(***************************************************************************)
\* Placement is over: the children loop has visited every node.
AfterPlacement ==
    \/ pc \in {"route", "size", "bbox", "offset", "draw", "string", "done"}
    \/ (pc = "children" /\ idx > Len(nodes))

\* C2: no step of the pipeline panics: every run ends with an output or an
\* error, whatever the depth of the graph.
C2_NoPanic == pc # "panic"

\* C3: after placement the 3x3 blocks of any two distinct nodes are disjoint,
\* and the grid maps the nine cells of every node's block to that node and
\* no cell outside the block to it.
C3_BlocksDisjoint ==
    AfterPlacement =>
        /\ \A i \in DOMAIN nodes : nodes[i].grid_coord.some
        /\ \A i, j \in DOMAIN nodes :
              i # j => Block(nodes[i].grid_coord) \cap Block(nodes[j].grid_coord) = {}
        /\ \A i \in DOMAIN nodes :
              { c \in DOMAIN grid : grid[c] = i }
                  = { Coord(q.x, q.y) : q \in Block(nodes[i].grid_coord) }

\* C3 witness: three nodes have been placed, two of them on the same level.
C3_Witness ==
    /\ AfterPlacement
    /\ Len(nodes) = 3
    /\ \E i, j \in DOMAIN nodes :
          i # j /\ nodes[i].grid_coord.x = nodes[j].grid_coord.x

\* C6: for every ordered pair of junction glyphs, merge_junctions returns a
\* glyph whose (up, down, left, right) signature is the OR of the two
\* signatures.
C6_MergeIsOr ==
    pc = "merged" =>
        junction_dirs(jout.ab) = DirsOr(junction_dirs(jin[1]), junction_dirs(jin[2]))

\* C7: junction merging is commutative and associative in signature.
C7_MergeCommutesAssociates ==
    pc = "merged" =>
        /\ junction_dirs(jout.ab) = junction_dirs(jout.ba)
        /\ junction_dirs(jout.ab_c) = junction_dirs(jout.a_bc)

AsciiGlyphs == {" ", "+", "-", "|", "<", ">", "^", "v", "*", "\\", "/", "."}

\* The characters of the names and labels of the input.
UserChars ==
    UNION { Range(l.name) \cup Range(l.label) : l \in Range(lines) }
    \cup UNION { Range(l.lhs) \cup Range(l.rhs) : l \in { q \in Range(lines) :
                                                          q.k \in {"solid", "dotted"} } }
    \cup UNION { UNION { Range(n) : n \in Range(l.lhs) \cup Range(l.rhs) } :
                  l \in { q \in Range(lines) : q.k = "edge" } }

\* The cells of the output.
OutputCells == UNION { Range(output.rows[r]) : r \in DOMAIN output.rows }

\* The cells that hold a number: a digit, or a row number of the ruler.
NumberCells == { Decimal(n) : n \in 0 .. 9 } \cup { Pad2(n) : n \in 0 .. (RulerSlots - 1) }

\* The renderer was asked to number the messages, or to draw the rulers.
WritesNumbers ==
    \/ mode = "sequence" /\ seqd.diagram.autonumber
    \/ mode # "sequence" /\ config.show_coords

AfterRouting == pc \in {"size", "bbox", "offset", "draw", "string", "done"}

\* A cell outside the block at c that shares a side with one of its cells.
AdjacentTo(q, c) ==
    /\ q \notin Block(c)
    /\ \E b \in Block(c) : Abs(q.x - b.x) + Abs(q.y - b.y) = 1

NameAt(rows, r, c, name) ==
    /\ c + Len(name) - 1 <= Len(rows[r])
    /\ \A k \in DOMAIN name : rows[r][c + k - 1] = name[k]

\* C9: in the final canvas the characters of every node's name occupy
\* consecutive cells of one row.
C9_NamesPresent ==
    pc = "done" =>
        \A i \in DOMAIN nodes :
            \E r \in DOMAIN output.rows : \E c \in DOMAIN output.rows[r] :
                NameAt(output.rows, r, c, nodes[i].name)

\* The chain of three nodes, declared head first and tail first.
ChainForward == << EdgeLine(<< A >>, << B >>, NoLabel), EdgeLine(<< B >>, << C >>, NoLabel) >>

ChainBackward == << EdgeLine(<< B >>, << C >>, NoLabel), EdgeLine(<< A >>, << B >>, NoLabel) >>

\* The grid coordinate of the node of that name.
CoordOf(ns, name) == ns[NodeIndex(ns, name)].grid_coord

\* The edges by the names of their ends, with their paths.
Routes(ns, es) ==
    { << ns[es[e].from].name, ns[es[e].to].name, es[e].path >> : e \in DOMAIN es }

\* C10 as stated: the chain declared head first and declared tail first give
\* the same node coordinates, the same edge paths and the same output.
C10_OrderIndependent ==
    (pc = "done" /\ lines = ChainForward) =>
        LET other == draw_map(ChainBackward, config, "asc")
        IN  /\ \A n \in {A, B, C} : CoordOf(nodes, n) = CoordOf(other.nodes, n)
            /\ Routes(nodes, edges) = Routes(other.nodes, other.edges)
            /\ output.rows = other.rows

\* The coordinate at position p of the primary axis, s of the secondary.
Along(p, s) == IF config.dirn = "LR" THEN Some(Coord(p, s)) ELSE Some(Coord(s, p))

\* C10 amended: both declaration orders give the same nodes and the same
\* edges between them, but the layout follows the order of declaration:
\* head first, the three nodes are on one line of the primary axis; tail
\* first, the middle node and the head are both roots, side by side.
C10_LayoutFollowsOrder ==
    (pc = "done" /\ lines \in {ChainForward, ChainBackward}) =>
        /\ { nodes[i].name : i \in DOMAIN nodes } = {A, B, C}
        /\ { << nodes[edges[e].from].name, nodes[edges[e].to].name >> : e \in DOMAIN edges }
               = { << A, B >>, << B, C >> }
        /\ lines = ChainForward =>
              /\ CoordOf(nodes, A) = Along(0, 0)
              /\ CoordOf(nodes, B) = Along(LevelStep, 0)
              /\ CoordOf(nodes, C) = Along(2 * LevelStep, 0)
        /\ lines = ChainBackward =>
              /\ CoordOf(nodes, B) = Along(0, 0)
              /\ CoordOf(nodes, A) = Along(0, LevelStep)
              /\ CoordOf(nodes, C) = Along(LevelStep, 0)

\* C10 witness: the chain declared tail first has been rendered.
C10_Witness == pc = "done" /\ lines = ChainBackward /\ Len(output.rows) > 3

\* offset_drawing_for_subgraphs has run.
AfterOffset == pc \in {"draw", "string", "done"}

\* C5: after offset_drawing_for_subgraphs every bound of every subgraph and
\* every node's drawing coordinate is at least 0.
C5_NonNegative ==
    AfterOffset =>
        /\ \A s \in DOMAIN subgraphs :
              /\ subgraphs[s].min_x >= 0 /\ subgraphs[s].min_y >= 0
              /\ subgraphs[s].max_x >= 0 /\ subgraphs[s].max_y >= 0
        /\ \A i \in DOMAIN nodes :
              /\ nodes[i].drawing_coord.some
              /\ nodes[i].drawing_coord.x >= 0 /\ nodes[i].drawing_coord.y >= 0

\* C5 witness: the drawing was shifted for two subgraphs, one inside the other.
C5_Witness ==
    /\ AfterOffset
    /\ offset.x > 0 /\ offset.y > 0
    /\ \E s \in DOMAIN subgraphs : subgraphs[s].parent # None /\ Len(subgraphs[s].nodes) > 0

\* C11: whenever the parsed sequence model has autonumber set, message k
\* carries the number k, wherever the autonumber line stands.
C11_DenseNumbers ==
    (mode = "sequence" /\ ~seqd.err /\ seqd.diagram.autonumber) =>
        \A k \in DOMAIN seqd.diagram.messages : seqd.diagram.messages[k].number = k

\* The identifiers that the message lines read so far name.
NamedByMessages ==
    UNION { {lines[k].lhs, lines[k].rhs} :
              k \in { q \in DOMAIN lines : lines[q].k \in {"solid", "dotted"} } }

\* The identifiers that the participant lines read so far declare.
DeclaredByLines == { lines[k].name : k \in { q \in DOMAIN lines : lines[q].k = "participant" } }

\* The participants of the parsed model that carry the identifier id.
WithId(id) == { i \in DOMAIN seqd.diagram.participants : seqd.diagram.participants[i].id = id }

\* C12: after any accepted lines the participant identifiers are pairwise
\* distinct, every participant's index is its position in the list, every
\* message's from and to are indices of the list, and an identifier that only
\* messages name has exactly one participant, whose label is the identifier.
C12_ParticipantsWellFormed ==
    (mode = "sequence" /\ ~seqd.err) =>
        LET ps == seqd.diagram.participants
        IN  /\ \A i, j \in DOMAIN ps : i # j => ps[i].id # ps[j].id
            /\ \A i \in DOMAIN ps : ps[i].index = i - 1
            /\ \A k \in DOMAIN seqd.diagram.messages :
                  /\ seqd.diagram.messages[k].from \in 0 .. (Len(ps) - 1)
                  /\ seqd.diagram.messages[k].to \in 0 .. (Len(ps) - 1)
            /\ \A id \in NamedByMessages \cup DeclaredByLines : Cardinality(WithId(id)) = 1
            /\ \A id \in NamedByMessages \ DeclaredByLines :
                  \A i \in WithId(id) : ps[i].label = id
            /\ Len(ps) = Cardinality(NamedByMessages \cup DeclaredByLines)

\* C12 witness: a message has named an identifier that no line declared,
\* beside a participant declared under another label.
C12_Witness ==
    /\ mode = "sequence" /\ ~seqd.err
    /\ NamedByMessages \ DeclaredByLines # {}
    /\ \E i \in DOMAIN seqd.diagram.participants :
          seqd.diagram.participants[i].label # seqd.diagram.participants[i].id

\* The check that a field of a configuration fails, as [value, message], or
\* no check: the bounds of the claim.
Violation(c, f) ==
    IF f \in {"box_border_padding", "padding_between_x", "padding_between_y",
              "sequence_participant_spacing", "sequence_message_spacing"}
    THEN IF c[f] >= 0 THEN << >>
         ELSE << [field |-> f, value |-> to_string(c[f]), message |-> "must be non-negative"] >>
    ELSE IF f = "graph_direction"
    THEN IF c[f] \in {"LR", "TD"} THEN << >>
         ELSE << [field |-> f, value |-> c[f], message |-> "must be \"LR\" or \"TD\""] >>
    ELSE IF f = "style_type"
    THEN IF c[f] \in {"cli", "html"} THEN << >>
         ELSE << [field |-> f, value |-> c[f], message |-> "must be \"cli\" or \"html\""] >>
    ELSE IF c[f] >= 2 THEN << >>
         ELSE << [field |-> f, value |-> to_string(c[f]), message |-> "must be at least 2"] >>

\* The violations of a configuration, in the order of the fields.
RECURSIVE Violations(_, _)
Violations(c, fields) ==
    IF fields = << >> THEN << >>
    ELSE Violation(c, Head(fields)) \o Violations(c, Tail(fields))

\* The result that a validation in the order of the fields gives.
Expected(c, fields) ==
    IF Violations(c, fields) = << >> THEN [kind |-> "ok"]
    ELSE [kind |-> "err", error |-> Display(Head(Violations(c, fields)))]

\* The fields in the order in which the claim lists them.
ListedOrder ==
    << "box_border_padding", "padding_between_x", "padding_between_y",
       "sequence_participant_spacing", "sequence_message_spacing",
       "graph_direction", "style_type", "sequence_self_message_width" >>

\* The fields in the order in which validate checks them.
CheckOrder ==
    << "box_border_padding", "padding_between_x", "padding_between_y",
       "graph_direction", "style_type",
       "sequence_participant_spacing", "sequence_message_spacing",
       "sequence_self_message_width" >>

\* new_cli_config returns a Config only when validate accepts that Config,
\* and the Config carries the arguments.
ConstructedOnlyValid ==
    (pc = "constructed" /\ output.kind = "ok") =>
        /\ validate(output.config).kind = "ok"
        /\ Violations(output.config, CheckOrder) = << >>
        /\ \A f \in {"use_ascii", "show_coords", "verbose", "box_border_padding",
                     "padding_between_x", "padding_between_y", "graph_direction"} :
              output.config[f] = config[f]

\* C13 as stated: validate returns Ok exactly when every field is within its
\* bound, and otherwise the error of the first violated field in the order
\* in which the claim lists the fields; new_cli_config returns a Config only
\* when validate succeeds.
C13_ListedOrderError ==
    /\ pc = "validated" => output = Expected(config, ListedOrder)
    /\ ConstructedOnlyValid

\* C13 amended: the first violated field is taken in the order of the checks
\* of validate, where graph_direction and style_type come before the
\* sequence spacings.
C13_CheckOrderError ==
    /\ pc = "validated" => output = Expected(config, CheckOrder)
    /\ ConstructedOnlyValid

\* C13 witness: validate has rejected a configuration with a bad direction
\* and a negative sequence spacing, naming the direction.
C13_Witness ==
    /\ pc = "validated"
    /\ config.graph_direction = "RL"
    /\ config.sequence_participant_spacing < 0
    /\ config.box_border_padding >= 0 /\ config.padding_between_x >= 0
    /\ config.padding_between_y >= 0
    /\ output = [kind |-> "err",
                 error |-> "invalid config: graph_direction = RL (must be \"LR\" or \"TD\")"]

\* C14: when the sequence parser rejects a line, the line number of the
\* error is the position of that line in the text, the keyword line being
\* line 1, also after blank lines and comment lines.
C14_LineNumberIsPosition ==
    (mode = "sequence" /\ seqd.err) => seqd.err_line = Len(lines) + 1

\* C15: after any sequence of mk_drawing, increase_size, set_cell and
\* merge_drawings all columns of the canvas have the same number of cells,
\* and every row of drawing_to_string has one cell per column.
C15_Rectangular ==
    /\ \A i \in DOMAIN drawing : Len(drawing[i]) = Len(drawing[1])
    /\ \A j \in DOMAIN output.rows :
          /\ Len(output.rows[j]) = Len(output.rows[1])
          /\ Len(output.rows[j]) > 0

\* C15 witness: a canvas that a merge or a write has grown beyond one cell in
\* both directions, printed with a mark on it.
C15_Witness ==
    /\ mode = "canvas"
    /\ Len(drawing) = MaxCanvasX + 1
    /\ Len(drawing[1]) = MaxCanvasY + 1
    /\ drawing[MaxCanvasX + 1][MaxCanvasY + 1] = Mark
    /\ drawing[1][1] = Mark
    /\ output.rows = drawing_to_string(drawing)

\* The names of the node list, in order.
NodeNames == [ i \in DOMAIN nodes |-> nodes[i].name ]

\* C16: the order of the node list that mk_graph builds is the insertion
\* order of the parser's ordered node map, also when a node gets a further
\* outgoing edge after later nodes were introduced.
C16_NodeListIsMapOrder ==
    (mode = "place" /\ pc # "parse") => NodeNames = DataKeys(data)

\* The coordinate of node i on the axis of the direction, and the nodes that
\* have an edge to node c, in node-list order.
PrimaryOf(i) == IF config.dirn = "LR" THEN nodes[i].grid_coord.x ELSE nodes[i].grid_coord.y

ParentsOf(c) == { i \in DOMAIN nodes : \E e \in DOMAIN edges : edges[e].from = i /\ edges[e].to = c }

FirstParent(c) == CHOOSE p \in ParentsOf(c) : \A q \in ParentsOf(c) : p <= q

NonRoots == { c \in DOMAIN nodes : ~Contains(root_nodes(nodes, edges), c) }

\* C17: after placement the components of every node's grid coordinate are
\* non-negative multiples of 4, every non-root node lies 4 further on the
\* primary axis than the first node of the node list with an edge to it, and
\* the children loop never reaches a node that has no coordinate.
C17_LevelsFollowParents ==
    /\ pc # "panic"
    /\ (pc = "children" /\ idx <= Len(nodes)) => nodes[idx].grid_coord.some
    /\ AfterPlacement =>
          /\ \A i \in DOMAIN nodes :
                /\ nodes[i].grid_coord.some
                /\ nodes[i].grid_coord.x >= 0 /\ nodes[i].grid_coord.x % LevelStep = 0
                /\ nodes[i].grid_coord.y >= 0 /\ nodes[i].grid_coord.y % LevelStep = 0
          /\ \A c \in NonRoots :
                /\ ParentsOf(c) # {}
                /\ PrimaryOf(c) = PrimaryOf(FirstParent(c)) + LevelStep

\* C17 witness: placement is over and a node that is no root has edges from
\* two other nodes that stand on different levels.
C17_Witness ==
    /\ mode = "place" /\ AfterPlacement
    /\ \E c \in NonRoots : \E p, q \in ParentsOf(c) \ {c} : PrimaryOf(p) # PrimaryOf(q)
\* The edge that the edge loop has routed last, and the two searches that
\* determine_path has run for it: get_path from the cell of the preferred
\* start direction to the cell of the preferred end direction, and the same
\* for the alternative pair.
LastRouted == idx - 1

Ends(e, a, b) ==
    [from |-> direction(nodes[edges[e].from].grid_coord,
                        determine_start_and_end_dir(config.dirn, edges[e], nodes)[a]),
     to   |-> direction(nodes[edges[e].to].grid_coord,
                        determine_start_and_end_dir(config.dirn, edges[e], nodes)[b])]

Search(ends) == get_path(grid, ends.from, ends.to)

JustRouted == mode = "route" /\ pc = "route" /\ LastRouted \in DOMAIN edges

\* The cells that a path may pass: free cells, and the target.
Traversable(g, to, c) == is_free_in_grid(g, c) \/ c = to

\* The four neighbours of every cell of a set.
Neighbours(cells) ==
    UNION { { Coord(c.x + 1, c.y), Coord(c.x - 1, c.y), Coord(c.x, c.y + 1), Coord(c.x, c.y - 1) } :
              c \in cells }

\* The largest column and row that a shortest path can need: one beyond
\* every owned cell and beyond both ends.
Reach(g, from, to) ==
    [x |-> MaxOf({ c.x : c \in DOMAIN g } \cup {from.x, to.x}, 0) + 1,
     y |-> MaxOf({ c.y : c \in DOMAIN g } \cup {from.y, to.y}, 0) + 1]

\* Breadth-first search: the number of steps of a shortest 4-connected path
\* to the target from the cells of the frontier, which are k steps from the
\* start; -1 when there is none.
RECURSIVE Flood(_, _, _, _, _, _)
Flood(g, to, lim, frontier, seen, k) ==
    IF to \in frontier THEN k
    ELSE IF frontier = {} THEN -1
    ELSE Flood(g, to, lim,
               { c \in Neighbours(frontier) \ seen :
                   c.x <= lim.x /\ c.y <= lim.y /\ Traversable(g, to, c) },
               seen \cup Neighbours(frontier), k + 1)

ShortestSteps(g, from, to) == Flood(g, to, Reach(g, from, to), {from}, {from}, 0)

Steps(path) == Len(path) - 1

\* C18: the path that get_path returns has the fewest steps of all
\* 4-connected paths through traversable cells, for the preferred and for
\* the alternative pair of ends of every edge.
C18_ShortestPath ==
    JustRouted =>
        \A ends \in { Ends(LastRouted, 1, 2), Ends(LastRouted, 3, 4) } :
            \A r \in { Search(ends) } :
                r.status = "ok" => Steps(r.path) = ShortestSteps(grid, ends.from, ends.to)

\* C18 witness: a search has returned a path between two cells that lie on
\* neither a common row nor a common column, so that the heuristic added 1,
\* and that path has a bend around a block: it is longer than the distance.
C18_Witness ==
    /\ JustRouted
    /\ \E ends \in { Ends(LastRouted, 1, 2) } :
          /\ ends.from.x # ends.to.x /\ ends.from.y # ends.to.y
          /\ \E r \in { Search(ends) } :
                /\ r.status = "ok"
                /\ Steps(r.path) > Abs(ends.from.x - ends.to.x) + Abs(ends.from.y - ends.to.y)

\* C19: for every edge of a placed graph, self-edges and backward edges
\* among them, the search for the preferred pair of ends, and the one for
\* the alternative pair, returns a path before the queue runs empty and
\* within the bound on the passes of its loop, and the edge leaves the edge
\* loop with a path that is not empty.
C19_SearchReachesTarget ==
    JustRouted =>
        /\ Search(Ends(LastRouted, 1, 2)).status = "ok"
        /\ Search(Ends(LastRouted, 3, 4)).status = "ok"
        /\ edges[LastRouted].path # << >>

\* C19 witness: the edge loop has routed a self-edge, and a backward edge.
C19_Witness ==
    /\ mode = "route" /\ pc = "route" /\ idx > Len(edges)
    /\ \E e \in DOMAIN edges : edges[e].from = edges[e].to /\ Len(edges[e].path) > 1
    /\ \E e \in DOMAIN edges :
          /\ PrimaryOf(edges[e].to) < PrimaryOf(edges[e].from)
          /\ Len(edges[e].path) > 1

\* Two cells one axis-aligned unit step apart.
UnitStep(a, b) == Abs(a.x - b.x) + Abs(a.y - b.y) = 1

\* The path is one of unit steps, passes no cell twice, and between its ends
\* passes only free cells.
WellFormed(g, path) ==
    /\ \A k \in 1 .. (Len(path) - 1) : UnitStep(path[k], path[k + 1])
    /\ \A j, k \in DOMAIN path : j # k => path[j] # path[k]
    /\ \A k \in 2 .. (Len(path) - 1) :
          path[k].x >= 0 /\ path[k].y >= 0 /\ path[k] \notin DOMAIN g

\* C20: every path that get_path returns is a sequence of cells one unit
\* step apart, without a repeated cell, whose cells between the first and
\* the last are non-negative and not owned in the grid map.
C20_PathWellFormed ==
    JustRouted =>
        \A ends \in { Ends(LastRouted, 1, 2), Ends(LastRouted, 3, 4) } :
            \A r \in { Search(ends) } :
                r.status = "ok" =>
                    /\ r.path # << >>
                    /\ r.path[1] = ends.from
                    /\ r.path[Len(r.path)] = ends.to
                    /\ WellFormed(grid, r.path)

\* C20 witness: a returned path of more than three cells with a bend.
C20_Witness ==
    /\ JustRouted
    /\ \E r \in { Search(Ends(LastRouted, 1, 2)) } :
          /\ r.status = "ok"
          /\ Len(r.path) > 3
          /\ \E j, k \in DOMAIN r.path : r.path[j].x # r.path[k].x /\ r.path[j].y # r.path[k].y

\* The four directions that determine_start_and_end_dir gives for edge e.
DirsOf(e) == determine_start_and_end_dir(config.dirn, edges[e], nodes)

\* Edge e has left the edge loop with the alternative pair of directions,
\* where that pair differs from the preferred one.
TakesAlternative(e) ==
    /\ << DirsOf(e)[3], DirsOf(e)[4] >> # << DirsOf(e)[1], DirsOf(e)[2] >>
    /\ edges[e].start_dir = DirsOf(e)[3]
    /\ edges[e].end_dir = DirsOf(e)[4]

RECURSIVE IsSubseqFrom(_, _, _, _)
IsSubseqFrom(q, j, p, i) ==
    IF j > Len(q) THEN TRUE
    ELSE IF i > Len(p) THEN FALSE
    ELSE IF q[j] = p[i] THEN IsSubseqFrom(q, j + 1, p, i + 1)
    ELSE IsSubseqFrom(q, j, p, i + 1)

\* No three consecutive waypoints of q lie on one line in one direction.
NoStraightTriple(q) ==
    \A k \in 1 .. (Len(q) - 2) :
        determine_direction(q[k], q[k + 1]) # determine_direction(q[k + 1], q[k + 2])

\* C22: for every path of axis-aligned unit steps, merge_path keeps the
\* first and the last cell, gives a subsequence of the path without three
\* consecutive waypoints on one line in one direction, and merging the
\* result again changes nothing.
C22_MergePath ==
    pc = "merged" =>
        /\ Len(jout.once) > 0
        /\ jout.once[1] = jin[1]
        /\ jout.once[Len(jout.once)] = jin[Len(jin)]
        /\ IsSubseqFrom(jout.once, 1, jin, 1)
        /\ NoStraightTriple(jout.once)
        /\ jout.twice = jout.once

\* C22 witness: a path of the most steps has been merged to fewer waypoints,
\* of which more than three remain.
C22_Witness ==
    /\ pc = "merged"
    /\ Len(jin) = MaxPathSteps + 1
    /\ Len(jout.once) < Len(jin)
    /\ Len(jout.once) > 3


(***************************************************************************)
(* C23: the pitches of the grid only grow.                                 *)
(***************************************************************************)
\* Every entry of the width map a is an entry of b that is no smaller.
Grows(a, b) == \A k \in DOMAIN a : k \in DOMAIN b /\ b[k] >= a[k]

GrowsBoth(v, w) ==
    /\ Grows(v.column_width, w.column_width)
    /\ Grows(v.row_height, w.row_height)

\* The pitches after set_column_width has run for the first k nodes.
RECURSIVE NodeSizing(_)
NodeSizing(k) ==
    IF k = 0 THEN [column_width |-> EmptyMap, row_height |-> EmptyMap]
    ELSE set_column_width(nodes, edges, subgraphs, config, k, NodeSizing(k - 1))

JustSized == pc = "route" /\ idx = 1

AfterLayout == pc \in {"bbox", "offset", "draw", "string", "done"}

\* The pitches of the running graph.
Pitches == [column_width |-> column_width, row_height |-> row_height]

\* The pitches between increase_grid_size_for_path and determine_label_line
\* of the pass of the edge loop that is being taken.
PathSized == increase_grid_size_for_path(config, edges'[idx].path, Pitches)

\* One step of layout leaves no pitch smaller than it was, neither at its end
\* nor between the two widenings of one pass of the edge loop.
NoPitchShrinks ==
    /\ GrowsBoth(Pitches, [column_width |-> column_width', row_height |-> row_height'])
    /\ (pc = "route" /\ idx <= Len(edges)) =>
           /\ GrowsBoth(Pitches, PathSized)
           /\ GrowsBoth(PathSized,
                        [column_width |-> column_width', row_height |-> row_height'])

\* Node by node, set_column_width leaves no pitch smaller than it was.
NodeSizingGrows ==
    JustSized =>
        /\ NodeSizing(Len(nodes)) = Pitches
        /\ \A k \in 1 .. Len(nodes) : GrowsBoth(NodeSizing(k - 1), NodeSizing(k))

\* After layout the column and the row of the text of every node box hold
\* its name and its padding.
BoxesFit ==
    AfterLayout =>
        \A i \in DOMAIN nodes :
            /\ column_width[nodes[i].grid_coord.x + 1]
                   >= 2 * config.box_border_padding + Len(nodes[i].name)
            /\ row_height[nodes[i].grid_coord.y + 1] >= 1 + 2 * config.box_border_padding

\* C23: over the whole of layout (node sizing, routing of each edge, path
\* sizing, widening for the label line) no entry of column_width or row_height
\* is ever replaced by a smaller value, and after layout, for every node at
\* grid origin (x, y), column_width[x + 1] >= 2 * box_border_padding + the
\* length of its name and row_height[y + 1] >= 1 + 2 * box_border_padding.
C23_PitchesOnlyGrow ==
    /\ [](NodeSizingGrows /\ BoxesFit)
    /\ [][NoPitchShrinks]_vars

\* C23 witness: layout is over for a graph in which a later node met a column
\* that an earlier, longer name had sized, and an edge label has widened a
\* column beyond the padding between the boxes.
C23_Witness ==
    /\ AfterLayout
    /\ \E i, j \in DOMAIN nodes :
           /\ i < j
           /\ nodes[i].grid_coord.x = nodes[j].grid_coord.x
           /\ Len(nodes[i].name) > Len(nodes[j].name)
    /\ \E e \in DOMAIN edges :
           /\ Len(edges[e].text) > 0
           /\ \E k \in DOMAIN column_width : column_width[k] = Len(edges[e].text) + 2


(***************************************************************************)
(* C24: the arrowhead of an edge.                                          *)
(***************************************************************************)
\* The cells of the last line that draw_path draws for a path.
FinalLine(p) == p.lines_drawn[Len(p.lines_drawn)]

\* The heading of the last step of a path that draw_path draws.
FinalHeading(p) == p.line_dirs[Len(p.line_dirs)]

\* The cell of a line that lies nearest the drawing coordinate t.
Nearest(line, t) ==
    LET far(c) == Abs(c.x - t.x) + Abs(c.y - t.y)
    IN  line[CHOOSE k \in DOMAIN line : \A q \in DOMAIN line : far(line[k]) <= far(line[q])]

\* The cells of a drawing that hold a glyph.
Glyphs(d) ==
    { c \in (0 .. SizeX(d)) \X (0 .. SizeY(d)) : CellAt(d, c[1], c[2]) # Blank }

\* The arrowhead layer h of an edge holds one glyph, which points along the
\* heading of the final line in the cell of that line nearest the target.
HeadAtTarget(edge, line, heading, h) ==
    \E c \in { Nearest(line, DC(Graph, edge.path[Len(edge.path)])) } :
        /\ Glyphs(h) = { << c.x, c.y >> }
        /\ CellAt(h, c.x, c.y) = HeadGlyph(heading, config.use_ascii)

JustDrawn == pc = "string"

\* C24: for every routed edge the arrowhead is written in the cell of the final
\* drawn segment that is nearest the target box, and its glyph points in the
\* heading of that segment, which is the opposite of the end_dir of the edge.
C24_ArrowheadAtTarget ==
    JustDrawn =>
        \A e \in DOMAIN edges :
            Len(edges[e].path) > 0 =>
                \E p \in { draw_path(Graph, edges[e].path) } :
                    /\ FinalHeading(p) = opposite(edges[e].end_dir)
                    /\ HeadAtTarget(edges[e], FinalLine(p), FinalHeading(p),
                                    draw_arrow(Graph, edges[e]).arrow_head)


(***************************************************************************)
(* C25: the order of the layers of draw.                                   *)
(***************************************************************************)
\* One layer of the edges: the drawings of one kind, each merged at (0, 0).
EdgeLayer(layers, kind) ==
    [ e \in DOMAIN layers |-> [offset |-> Coord(0, 0), drawing |-> layers[e][kind]] ]

\* The layers of draw in the order in which it merges them, each a sequence
\* of drawings with their offsets, for the graph g on an empty canvas.
DrawLayers(g) ==
    << SubgraphFrames(g.subgraphs, g.use_ascii),
       NodeBoxes(g.nodes),
       EdgeLayer(EdgeLayers(g, g.drawing), "line"),
       EdgeLayer(EdgeLayers(g, g.drawing), "corners"),
       EdgeLayer(EdgeLayers(g, g.drawing), "arrow_head"),
       EdgeLayer(EdgeLayers(g, g.drawing), "box_start"),
       EdgeLayer(EdgeLayers(g, g.drawing), "label"),
       SubgraphLabels(g.subgraphs) >>

\* The glyph that the drawings k.. of a layer leave in the cell (x, y) that
\* held cur.
RECURSIVE LayerCell(_, _, _, _, _, _)
LayerCell(cur, items, k, x, y, use_ascii) ==
    IF k > Len(items) THEN cur
    ELSE LayerCell(MergeCell(cur, << items[k].drawing >>, 1, x, y, items[k].offset, use_ascii),
                   items, k + 1, x, y, use_ascii)

\* The glyph that each layer, merged on its own on an empty canvas, leaves in
\* the cell (x, y): Blank if it does not write there.
GlyphsAt(layers, x, y, use_ascii) ==
    [ l \in DOMAIN layers |-> LayerCell(Blank, layers[l], 1, x, y, use_ascii) ]

\* The cell holds the glyph of the last layer that writes there, whenever an
\* earlier layer writes there too and the two glyphs are not both junctions.
LaterWins(gl, final) ==
    \A l1, l2 \in DOMAIN gl :
        (/\ l1 < l2
         /\ gl[l1] # Blank
         /\ gl[l2] # Blank
         /\ \A l3 \in DOMAIN gl : l3 > l2 => gl[l3] = Blank
         /\ ~(is_junction_char(gl[l1]) /\ is_junction_char(gl[l2])))
        => final = gl[l2]

\* C25: draw merges its layers in the order subgraph frames (outermost first),
\* node boxes, edge lines, edge corners, arrowheads, box-start junctions, edge
\* labels, subgraph labels; where two layers write a glyph other than a space
\* to the same cell and the two are not both junction glyphs, the final canvas
\* holds the glyph of the later layer.
C25_LaterLayerWins ==
    JustDrawn =>
        \E ls \in { DrawLayers([Graph EXCEPT !.drawing = copy_canvas(drawing)]) } :
            \A x \in 0 .. SizeX(drawing) : \A y \in 0 .. SizeY(drawing) :
                LaterWins(GlyphsAt(ls, x, y, config.use_ascii), CellAt(drawing, x, y))


\* The layers l1 < l2 write different glyphs, not both junctions, to one cell of
\* the canvas, and no later layer writes there.
Overwrites(ls, l1, l2) ==
    \E x \in 0 .. SizeX(drawing) : \E y \in 0 .. SizeY(drawing) :
        \E gl \in { GlyphsAt(ls, x, y, config.use_ascii) } :
            /\ gl[l1] # Blank
            /\ gl[l2] # Blank
            /\ gl[l1] # gl[l2]
            /\ ~(is_junction_char(gl[l1]) /\ is_junction_char(gl[l2]))
            /\ \A l3 \in DOMAIN gl : l3 > l2 => gl[l3] = Blank

\* C25 witness: a graph with a subgraph has been drawn in which an arrowhead
\* is written over an edge line and an edge label over an edge line.
C25_Witness ==
    /\ JustDrawn
    /\ Len(subgraphs) > 0
    /\ \E ls \in { DrawLayers([Graph EXCEPT !.drawing = copy_canvas(drawing)]) } :
           /\ Overwrites(ls, 3, 5)
           /\ Overwrites(ls, 3, 7)


(***************************************************************************)
(* C26: the subgraphs of the parser form a forest.                         *)
(***************************************************************************)
\* C26: after any sequence of subgraph, end, edge and node lines, an end line
\* with no subgraph open among them, the parent index of every subgraph is
\* smaller than its own index, subgraph j has parent i exactly when i lists j
\* among its children, and every node identifier in the node list of a
\* subgraph is also in the node list of its parent.
C26_SubgraphForest ==
    \A j \in DOMAIN tsubgraphs :
        /\ tsubgraphs[j].parent < j
        /\ \A i \in DOMAIN tsubgraphs :
               (tsubgraphs[j].parent = i) <=> Contains(tsubgraphs[i].children, j)
        /\ tsubgraphs[j].parent # None =>
               \A k \in DOMAIN tsubgraphs[j].nodes :
                   Contains(tsubgraphs[tsubgraphs[j].parent].nodes, tsubgraphs[j].nodes[k])

\* C26 witness: the text starts with an end line that closes nothing, and a
\* subgraph inside another holds a node while its parent holds one more.
C26_Witness ==
    /\ mode = "nest"
    /\ Len(lines) > 0
    /\ lines[1].k = "end"
    /\ \E j \in DOMAIN tsubgraphs :
           /\ tsubgraphs[j].parent # None
           /\ Len(tsubgraphs[j].nodes) > 0
           /\ Len(tsubgraphs[tsubgraphs[j].parent].nodes) > Len(tsubgraphs[j].nodes)


(***************************************************************************)
(* C27, C28: the bounding boxes of the subgraphs.                          *)
(***************************************************************************)
\* The nodes of a subgraph that have a box.
BoxedNodes(sg) ==
    { n \in Range(sg.nodes) : nodes[n].drawing_coord.some /\ nodes[n].drawing # NoDrawing }

\* The bounding box of sg holds the box of node n with the margins of
\* calculate_subgraph_bounding_box.
HoldsNode(sg, n) ==
    /\ sg.min_x <= nodes[n].drawing_coord.x - SubgraphPadding
    /\ sg.min_y <= nodes[n].drawing_coord.y - SubgraphPadding - SubgraphLabelSpace
    /\ sg.max_x >= nodes[n].drawing_coord.x + Len(nodes[n].drawing) - 1 + SubgraphPadding
    /\ sg.max_y >= nodes[n].drawing_coord.y + Len(nodes[n].drawing[1]) - 1 + SubgraphPadding

\* The bounding box of sg holds the bounding box of c.
HoldsBox(sg, c) ==
    /\ sg.min_x <= c.min_x
    /\ sg.min_y <= c.min_y
    /\ sg.max_x >= c.max_x
    /\ sg.max_y >= c.max_y

\* C27: after the bounding boxes, ensure_subgraph_spacing and the global
\* offset, the bounding box of every subgraph that is not empty contains the
\* box of each of its nodes with a margin of at least 2 cells on the left, on
\* the right and at the bottom and 4 at the top, and contains the bounding box
\* of each of its child subgraphs.
C27_BoxesContain ==
    AfterOffset =>
        \A s \in DOMAIN subgraphs :
            Len(subgraphs[s].nodes) > 0 =>
                /\ \A n \in BoxedNodes(subgraphs[s]) : HoldsNode(subgraphs[s], n)
                /\ \A c \in Range(subgraphs[s].children) :
                       Len(subgraphs[c].nodes) > 0 => HoldsBox(subgraphs[s], subgraphs[c])


\* The bounding boxes as calculate_subgraph_bounding_box leaves them, before
\* ensure_subgraph_spacing.
BoxesBefore ==
    [ s \in DOMAIN subgraphs |->
        WithBox(subgraphs[s], calculate_subgraph_bounding_box(subgraphs, nodes, s)) ]

\* By how many cells two boxes overlap along each axis; none if not positive.
OverlapX(a, b) == min(a.max_x, b.max_x) - max(a.min_x, b.min_x)

OverlapY(a, b) == min(a.max_y, b.max_y) - max(a.min_y, b.min_y)

Overlapping(a, b) == OverlapX(a, b) > 0 /\ OverlapY(a, b) > 0

\* Two boxes lie at least one free cell apart along an axis.
ApartX(a, b) == b.min_x - a.max_x > MinSpacing \/ a.min_x - b.max_x > MinSpacing

ApartY(a, b) == b.min_y - a.max_y > MinSpacing \/ a.min_y - b.max_y > MinSpacing

SameX(a, b) == a.min_x = b.min_x /\ a.max_x = b.max_x

SameY(a, b) == a.min_y = b.min_y /\ a.max_y = b.max_y

\* The pair (a, b) of boxes that overlapped has become the pair (c, d): moved
\* apart along the axis of the smaller overlap, and along that axis only.
PushedApart(a, b, c, d) ==
    /\ ~Overlapping(c, d)
    /\ OverlapX(a, b) < OverlapY(a, b) =>
           ApartX(c, d) /\ SameY(a, c) /\ SameY(b, d)
    /\ OverlapY(a, b) < OverlapX(a, b) =>
           ApartY(c, d) /\ SameX(a, c) /\ SameX(b, d)
    /\ OverlapX(a, b) = OverlapY(a, b) =>
           \/ ApartX(c, d) /\ SameY(a, c) /\ SameY(b, d)
           \/ ApartY(c, d) /\ SameX(a, c) /\ SameX(b, d)

JustSpaced == pc = "offset"

\* C28: ensure_subgraph_spacing pushes apart every pair of overlapping root
\* subgraphs that are not empty, along the one axis on which their overlap is
\* smaller: afterwards the two bounding boxes no longer overlap and are at
\* least one cell apart on that axis.
C28_OverlapsPushedApart ==
    JustSpaced =>
        \E before \in { BoxesBefore } :
            \A a, b \in Range(RootSubgraphs(subgraphs)) :
                (a < b /\ Overlapping(before[a], before[b])) =>
                    PushedApart(before[a], before[b], subgraphs[a], subgraphs[b])


(***************************************************************************)
(* C29, C30: the layout of a sequence diagram as it is rendered.           *)
(***************************************************************************)
\* A sequence diagram has been rendered.
SeqRendered == mode \in {"sequence", "layout"} /\ pc = "done" /\ output.kind = "ok"

\* The columns, counted from 0, of the cells of a row that hold the glyph g.
Columns(row, g) ==
    LET at == SelectSeq([ k \in DOMAIN row |-> k ], LAMBDA k : row[k] = g)
    IN  [ k \in DOMAIN at |-> at[k] - 1 ]

SeqChars == IF config.use_ascii THEN SeqAscii ELSE SeqUnicode

\* The first and the last column of the box of every participant, read off
\* the top row of the output, and the column of every lifeline, read off the
\* last row.
BoxFirst == Columns(output.rows[1], SeqChars.top_left)

BoxLast == Columns(output.rows[1], SeqChars.top_right)

Lifeline == Columns(output.rows[Len(output.rows)], SeqChars.vertical)

\* The boxes of the participants stand s blank cells apart, the first at
\* column 0, and every lifeline runs through the middle of its box.
BoxesSpaced(s) ==
    /\ Len(BoxFirst) = Len(seqd.diagram.participants)
    /\ Len(BoxLast) = Len(BoxFirst)
    /\ Len(Lifeline) = Len(BoxFirst)
    /\ BoxFirst[1] = 0
    /\ \A i \in 2 .. Len(BoxFirst) : BoxFirst[i] = BoxLast[i - 1] + 1 + s
    /\ \A i \in DOMAIN BoxFirst :
           /\ 2 * Lifeline[i] >= BoxFirst[i] + BoxLast[i]
           /\ 2 * Lifeline[i] <= BoxFirst[i] + BoxLast[i] + 1

\* C29 as stated: for every configuration that validate accepts, a
\* sequence_participant_spacing of 0 included, the box of participant 0 starts
\* at column 0, the box of every later participant starts exactly
\* sequence_participant_spacing cells after the box before it, and every
\* lifeline is the horizontal midpoint of its box.
C29_SpacingAsConfigured ==
    SeqRendered => BoxesSpaced(config.sequence_participant_spacing)

\* C29 amended: the boxes stand sequence_participant_spacing cells apart if
\* that is positive, and the default spacing of 5 cells apart if it is 0.
C29_SpacingOrDefault ==
    SeqRendered =>
        BoxesSpaced(IF config.sequence_participant_spacing > 0
                    THEN config.sequence_participant_spacing
                    ELSE DefaultParticipantSpacing)

\* C29 witness: three participants have been rendered with a spacing of 0,
\* the first box wider than the second.
C29_Witness ==
    /\ SeqRendered
    /\ config.sequence_participant_spacing = 0
    /\ Len(seqd.diagram.participants) = 3
    /\ BoxLast[1] - BoxFirst[1] > BoxLast[2] - BoxFirst[2]


\* The cell of a row at a column counted from 0: blank beyond its end.
RowCell(row, c) == IF (c + 1) \in DOMAIN row THEN row[c + 1] ELSE Blank

\* The message k is drawn as a loop from a lifeline back to itself.
IsSelfMessage(k) == seqd.diagram.messages[k].from = seqd.diagram.messages[k].to

\* The rows of the output that message k takes: the lifeline rows in front of
\* it, the row of its label if it has one, and its own rows.
RowsOf(k) ==
    OrDefault(config.sequence_message_spacing, DefaultMessageSpacing)
    + (IF Len(NumberedLabel(seqd.diagram.messages[k])) > 0 THEN 1 ELSE 0)
    + (IF IsSelfMessage(k) THEN 3 ELSE 1)

\* The last row of message k in the output, below the three rows of the boxes.
RECURSIVE LastRowOf(_)
LastRowOf(k) == IF k = 0 THEN 3 ELSE LastRowOf(k - 1) + RowsOf(k)

\* The self-loop whose three rows are top, middle and bottom closes on the
\* lifeline at column center: the bottom row holds the lifeline, the left
\* arrow beside it, horizontals up to the far-right column and the corner
\* there, under the vertical of the middle row and the corner of the top row.
LoopCloses(top, middle, bottom, center, ch) ==
    \E far \in { c \in 0 .. Len(top) : c > center /\ RowCell(top, c) = ch.self_top_right } :
        /\ RowCell(middle, far) = ch.vertical
        /\ RowCell(bottom, far) = ch.self_bottom
        /\ RowCell(bottom, center) = ch.vertical
        /\ RowCell(bottom, center + 1) = ch.arrow_left
        /\ \A c \in (center + 2) .. (far - 1) : RowCell(bottom, c) = ch.horizontal

\* C30: for every self-message and every sequence_self_message_width >= 2,
\* the bottom row of the self-loop has the vertical glyph at the center column
\* of the participant, the left-arrow glyph at center + 1, horizontal glyphs
\* between the arrow and the far-right column, and the bottom-right corner of
\* the loop at the far-right column, which is the column of the corner of the
\* top row and of the vertical of the middle row.
C30_SelfLoopBottomRow ==
    SeqRendered =>
        \A k \in DOMAIN seqd.diagram.messages :
            IsSelfMessage(k) =>
                LoopCloses(output.rows[LastRowOf(k) - 2], output.rows[LastRowOf(k) - 1],
                           output.rows[LastRowOf(k)],
                           Lifeline[seqd.diagram.messages[k].from + 1], SeqChars)

====
